---- MODULE Spec2Model ----
(***************************************************************************)
(* Model of the file_transfer repository: the sender (client/send_file),  *)
(* the receiver (server/receive_file), the two directions of the TCP       *)
(* byte stream between them, and the file-system operations they use.      *)
(*                                                                         *)
(* One action stands for one blocking call of the code together with the  *)
(* local computation that follows it up to the next blocking call.        *)
(***************************************************************************)
EXTENDS Integers, Sequences, FiniteSets, TLC

(***************************************************************************)
(* Bounds of the model.                                                    *)
(***************************************************************************)
\* largest source file, in bytes
MaxFileSize == 5
\* FileInfo.chunk_size used by the sender (FT_DEFAULT_CHUNK_SIZE, scaled down)
ChunkSize == 2
\* longest file name drawn in the file-name specifications
MaxNameLen == 3
\* most bytes the source file loses when it is truncated during a transfer
MaxTruncated == 1
\* the largest max_retries handed to socket_connect_with_retry
MaxAttempts == 8
\* the largest number of accept() calls that fail before one succeeds
MaxAcceptFailures == 2

(***************************************************************************)
(* Program constants (protocol.h).                                         *)
(***************************************************************************)
FT_PROTOCOL_VERSION == 1
FT_MAX_RETRIES == 3
FT_MAX_FILENAME_LEN == 256
FT_HEADER_SIZE == 32
FT_FILE_INFO_SIZE == 1024
FT_BACKOFF_MAX_MS == 16000
BACKOFF_INITIAL_MS == 1000
FT_CHUNK_HEADER_SIZE == 24

MSG_HANDSHAKE_REQ == 1
MSG_HANDSHAKE_ACK == 2
MSG_FILE_INFO == 3
MSG_FILE_ACK == 4
MSG_CHUNK_DATA == 5
MSG_CHUNK_ACK == 6
MSG_VERIFY_RESPONSE == 9
MSG_ERROR == 255

FT_SUCCESS == 0
FT_ERR_CONNECT == -2
FT_ERR_SEND == -6
FT_ERR_RECV == -7
FT_ERR_TIMEOUT == -8
FT_ERR_FILE_OPEN == -10
FT_ERR_FILE_READ == -11
FT_ERR_FILE_WRITE == -12
FT_ERR_FILE_SEEK == -13
FT_ERR_DISK_FULL == -14
FT_ERR_CHECKSUM == -20
FT_ERR_PROTOCOL == -21
FT_ERR_VERSION == -22
FT_ERR_INVALID_MSG == -23
FT_ERR_OUT_OF_MEMORY == -30
FT_ERR_INVALID_ARG == -31

\* sizeof(FileAck), sizeof(ChunkAck), sizeof(ErrorMessage), sizeof(HandshakePayload)
SIZEOF_FileAck == 4
SIZEOF_ChunkAck == 12
SIZEOF_ErrorMessage == 256
SIZEOF_HandshakePayload == 4
\* uint8_t ack_buf[16] of send_file, uint8_t buffer[16] of recv_chunk_ack
ACK_BUF_SIZE == 16

\* "FTCP": the magic as its two 16-bit halves (0x4654, 0x4350)
FT_MAGIC_NUMBER == <<17988, 17232>>

(***************************************************************************)
(* CRC-32 (IEEE 802.3, reflected, polynomial 0xEDB88320).  A 32-bit value  *)
(* is the pair <<high 16 bits, low 16 bits>>.                              *)
(***************************************************************************)
RECURSIVE BitXor(_, _)
BitXor(a, b) ==
    IF a = 0 THEN b
    ELSE IF b = 0 THEN a
    ELSE (((a % 2) + (b % 2)) % 2) + 2 * BitXor(a \div 2, b \div 2)

Xor32(x, y) == <<BitXor(x[1], y[1]), BitXor(x[2], y[2])>>

Shr32(x) == <<x[1] \div 2, (x[2] \div 2) + (x[1] % 2) * 32768>>

CRC_POLY == <<60856, 33568>>

RECURSIVE CrcBits(_, _)
CrcBits(c, n) ==
    IF n = 0 THEN c
    ELSE CrcBits(IF c[2] % 2 = 1 THEN Xor32(Shr32(c), CRC_POLY) ELSE Shr32(c), n - 1)

RECURSIVE CrcBytes(_, _)
\* the running value is evaluated byte by byte (the test on its high half
\* makes it so): over the 24 bytes of a header a nested evaluation is too deep
CrcBytes(c, data) ==
    IF data = <<>> THEN c
    ELSE LET next == CrcBits(Xor32(c, <<0, Head(data)>>), 8)
         IN  IF next[1] < 65536 THEN CrcBytes(next, Tail(data)) ELSE c

Crc32Of(data) == Xor32(CrcBytes(<<65535, 65535>>, data), <<65535, 65535>>)

RECURSIVE SeqsUpTo(_, _)
\* the sequences over S of length at most n
SeqsUpTo(S, n) ==
    IF n = 0 THEN {<<>>}
    ELSE LET shorter == SeqsUpTo(S, n - 1)
         IN  shorter \cup {Append(s, c) : s \in {t \in shorter : Len(t) = n - 1}, c \in S}

\* the CRC-32 of every byte sequence a chunk of the model can hold, computed once
CrcTable == [data \in SeqsUpTo(0..(MaxFileSize + 1), ChunkSize) |-> Crc32Of(data)]

crc32_compute(data) == IF data \in DOMAIN CrcTable THEN CrcTable[data] ELSE Crc32Of(data)

(***************************************************************************)
(* Wire encoding.  A byte is a number in 0..255; multi-byte integers are   *)
(* written in network byte order (htons, htonl, htonll).  A 64-bit field   *)
(* holds a number below 2^31 here, so its four high bytes are zero.        *)
(***************************************************************************)
FT_SHA256_SIZE == 32
\* uint8_t reserved[669] of FileInfo
ERROR_MESSAGE_SIZE == 247
FILE_INFO_RESERVED == 669
\* uint8_t reserved[3] of ChunkAck
CHUNK_ACK_RESERVED == 3

RECURSIVE ToBE(_, _)
\* the w bytes of the number n, most significant byte first
ToBE(n, w) == IF w = 0 THEN <<>> ELSE Append(ToBE(n \div 256, w - 1), n % 256)

RECURSIVE FromBE(_)
\* the number whose big-endian bytes are given
FromBE(bytes) ==
    IF bytes = <<>> THEN 0
    ELSE FromBE(SubSeq(bytes, 1, Len(bytes) - 1)) * 256 + bytes[Len(bytes)]

\* a 32-bit value kept as its two 16-bit halves
ToBE32(x) == ToBE(x[1], 2) \o ToBE(x[2], 2)
FromBE32(bytes) == <<FromBE(SubSeq(bytes, 1, 2)), FromBE(SubSeq(bytes, 3, 4))>>

Filled(n, b) == [i \in 1..n |-> b]

\* what a byte of an uninitialized structure or buffer may hold
StackBytes == {0, 1, 204}

\* the first 24 bytes protocol_serialize_header writes
HeaderPrefix(header) ==
    ToBE32(header.magic) \o <<header.version, header.msg_type>> \o ToBE(header.flags, 2)
        \o ToBE(header.sequence_num, 8) \o ToBE(header.payload_size, 8)

\* a serializer that writes the checksum field of the structure
protocol_serialize_header_stored(header) ==
    HeaderPrefix(header) \o ToBE32(header.checksum) \o ToBE32(header.reserved)

\* protocol_serialize_header: the checksum written is computed, header->checksum is not read
protocol_serialize_header(header) ==
    HeaderPrefix(header) \o ToBE32(crc32_compute(HeaderPrefix(header))) \o ToBE32(header.reserved)

protocol_deserialize_header(buffer) ==
    [magic |-> FromBE32(SubSeq(buffer, 1, 4)),
     version |-> buffer[5],
     msg_type |-> buffer[6],
     flags |-> FromBE(SubSeq(buffer, 7, 8)),
     sequence_num |-> FromBE(SubSeq(buffer, 9, 16)),
     payload_size |-> FromBE(SubSeq(buffer, 17, 24)),
     checksum |-> FromBE32(SubSeq(buffer, 25, 28)),
     reserved |-> FromBE32(SubSeq(buffer, 29, 32))]

\* protocol_serialize_file_info into buffer[FT_FILE_INFO_SIZE]: the bytes past
\* the structure keep what the buffer held
protocol_serialize_file_info(info, buffer) ==
    LET bytes == ToBE(info.filename_len, 2) \o info.filename \o ToBE(info.file_size, 8)
                    \o ToBE(info.total_chunks, 8) \o ToBE(info.chunk_size, 4)
                    \o <<info.checksum_type>> \o info.file_checksum
                    \o ToBE(info.file_mode, 4) \o ToBE(info.timestamp, 8)
                    \o Filled(FILE_INFO_RESERVED, 0)
    IN  bytes \o SubSeq(buffer, Len(bytes) + 1, Len(buffer))

\* protocol_deserialize_file_info into a structure that held prior
protocol_deserialize_file_info(buffer, prior) ==
    [filename_len |-> FromBE(SubSeq(buffer, 1, 2)),
     filename |-> [SubSeq(buffer, 3, 258) EXCEPT ![FT_MAX_FILENAME_LEN] = 0],
     file_size |-> FromBE(SubSeq(buffer, 259, 266)),
     total_chunks |-> FromBE(SubSeq(buffer, 267, 274)),
     chunk_size |-> FromBE(SubSeq(buffer, 275, 278)),
     checksum_type |-> buffer[279],
     file_checksum |-> SubSeq(buffer, 280, 279 + FT_SHA256_SIZE),
     file_mode |-> FromBE(SubSeq(buffer, 312, 315)),
     timestamp |-> FromBE(SubSeq(buffer, 316, 323)),
     reserved |-> prior.reserved]

protocol_serialize_chunk_header(chunk_hdr) ==
    ToBE(chunk_hdr.chunk_id, 8) \o ToBE(chunk_hdr.chunk_offset, 8)
        \o ToBE(chunk_hdr.chunk_size, 4) \o ToBE32(chunk_hdr.chunk_crc32)

protocol_deserialize_chunk_header(buffer) ==
    [chunk_id |-> FromBE(SubSeq(buffer, 1, 8)),
     chunk_offset |-> FromBE(SubSeq(buffer, 9, 16)),
     chunk_size |-> FromBE(SubSeq(buffer, 17, 20)),
     chunk_crc32 |-> FromBE32(SubSeq(buffer, 21, 24))]

\* the sizeof(ack) bytes send_chunk_ack hands to send_message
send_chunk_ack_bytes(ack_chunk_id, status) ==
    ToBE(ack_chunk_id, 8) \o <<status>> \o Filled(CHUNK_ACK_RESERVED, 0)

\* the ChunkAck recv_chunk_ack leaves in a structure that held prior
recv_chunk_ack_value(buffer, prior) ==
    [chunk_id |-> FromBE(SubSeq(buffer, 1, 8)), status |-> buffer[9], reserved |-> prior.reserved]

\* the 256 payload bytes send_error builds: (uint8_t)error_code, chunk_id in
\* network order, the message copied by strncpy and padded with '\0'
send_error_bytes(error_code, err_chunk_id, message) ==
    <<error_code % 256>> \o ToBE(err_chunk_id, 8) \o message
        \o Filled(ERROR_MESSAGE_SIZE - Len(message), 0)

\* what the reader of an ERROR payload obtains: error_code is buffer[0]
\* converted to FTErrorCode, chunk_id the next eight bytes
recv_error_value(buffer) ==
    [error_code |-> buffer[1], chunk_id |-> FromBE(SubSeq(buffer, 2, 9))]

(***************************************************************************)
(* Characters and file names.  A name is a sequence of one-character       *)
(* strings; NUL is the terminating '\0' of the C string.                   *)
(***************************************************************************)
NUL == "NUL"
Lower == {"a","b","c","d","e","f","g","h","i","j","k","l","m",
          "n","o","p","q","r","s","t","u","v","w","x","y","z"}
Upper == {"A","B","C","D","E","F","G","H","I","J","K","L","M",
          "N","O","P","Q","R","S","T","U","V","W","X","Y","Z"}
Digit == {"0","1","2","3","4","5","6","7","8","9"}

\* the characters file names are drawn from: a kept lower-case letter, an
\* upper-case letter, the dot, both path separators, and ':' (a dropped one)
NameAlphabet == {"a", "C", ".", "/", "\\", ":"}

Names == SeqsUpTo(NameAlphabet, MaxNameLen)

\* filename[i] of a C string held in the zeroed FileInfo.filename array (0-based)
CharAt(s, i) == IF i < Len(s) THEN s[i + 1] ELSE NUL

\* strstr(s, "..") != NULL
HasDotDot(s) == \E i \in 1..(Len(s) - 1) : s[i] = "." /\ s[i + 1] = "."

RECURSIVE SanitizeCopy(_, _, _, _)
\* the copy loop of file_sanitize_filename: i indexes filename, out is sanitized[0..j)
SanitizeCopy(filename, i, out, size) ==
    IF CharAt(filename, i) = NUL \/ ~(Len(out) < size - 1) THEN out
    ELSE LET c == CharAt(filename, i)
         IN  IF c \in Lower \/ c \in Upper \/ c \in Digit \/ c = "-" \/ c = "_" \/ c = "."
             THEN SanitizeCopy(filename, i + 1, Append(out, c), size)
             ELSE IF c = "/" \/ c = "\\"
             THEN SanitizeCopy(filename, i + 1, Append(out, "_"), size)
             ELSE SanitizeCopy(filename, i + 1, out, size)

\* file_sanitize_filename(filename, sanitized, size): [rc, name]
file_sanitize_filename(filename, size) ==
    IF size = 0 THEN [rc |-> FT_ERR_INVALID_ARG, name |-> <<>>]
    ELSE IF HasDotDot(filename) THEN [rc |-> FT_ERR_INVALID_ARG, name |-> <<>>]
    ELSE IF CharAt(filename, 0) = "/" \/ CharAt(filename, 0) = "\\"
            \/ (CharAt(filename, 1) = ":" /\ CharAt(filename, 0) \in Upper)
    THEN [rc |-> FT_ERR_INVALID_ARG, name |-> <<>>]
    ELSE LET out == SanitizeCopy(filename, 0, <<>>, size)
         IN  IF Len(out) = 0 THEN [rc |-> FT_ERR_INVALID_ARG, name |-> <<>>]
             ELSE [rc |-> FT_SUCCESS, name |-> out]

\* the last component of the temp path built by file_open_write: ".<name>.tmp"
TempEntry(name) == <<".">> \o name \o <<".", "t", "m", "p">>
\* the last component of the final path built by file_build_path
FinalEntry(name) == name

\* rename(temp_path, final_path) can only succeed if the final path does not
\* name the output directory itself or its parent
RenamePossible(name) == FinalEntry(name) /= <<".">> /\ FinalEntry(name) /= <<".", ".">>

(***************************************************************************)
(* Files.  A file is the sequence of its bytes; a hole left by a write     *)
(* beyond the end reads as 0.                                              *)
(***************************************************************************)
Min(a, b) == IF a < b THEN a ELSE b

\* the source file of a given size: byte i (0-based) has the value i + 1
SourceOfSize(n) == [i \in 1..n |-> i]

\* fseeko + fread of file_read_chunk
file_read_chunk(file, offset, chunk_size) ==
    SubSeq(file, offset + 1, Min(Len(file), offset + chunk_size))

\* a write that leaves the file as it was
file_write_chunk_lost(file, offset, buffer) == file

\* fseeko + fwrite + fflush of file_write_chunk
file_write_chunk(file, offset, buffer) ==
    LET newLen == IF buffer /= <<>> /\ offset + Len(buffer) > Len(file)
                  THEN offset + Len(buffer) ELSE Len(file)
    IN  [i \in 1..newLen |->
            IF i > offset /\ i <= offset + Len(buffer) THEN buffer[i - offset]
            ELSE IF i <= Len(file) THEN file[i]
            ELSE 0]

\* one byte of the data altered in transit
CorruptData(data) == [data EXCEPT ![1] = (@ + 1) % 256]

(***************************************************************************)
(* Messages.  A frame on the wire is its header fields and its payload.    *)
(***************************************************************************)
\* protocol_init_header followed by the payload
Frame(msg_type, sequence_num, payload_size, body) ==
    [magic |-> FT_MAGIC_NUMBER, version |-> FT_PROTOCOL_VERSION, msg_type |-> msg_type,
     sequence_num |-> sequence_num, payload_size |-> payload_size, body |-> body]

\* bytes that are left in the stream after a reader lost frame alignment:
\* whatever is read from them as a header does not carry the magic
Junk == [magic |-> <<0, 0>>, version |-> 0, msg_type |-> 0,
         sequence_num |-> 0, payload_size |-> 0, body |-> [junk |-> TRUE]]

\* a validation that looks at the version before the magic number
protocol_validate_header_version_first(header) ==
    IF header.version /= FT_PROTOCOL_VERSION THEN FT_ERR_VERSION
    ELSE IF header.magic /= FT_MAGIC_NUMBER THEN FT_ERR_PROTOCOL
    ELSE IF header.msg_type < MSG_HANDSHAKE_REQ
            \/ (header.msg_type > MSG_VERIFY_RESPONSE /\ header.msg_type /= MSG_ERROR)
    THEN FT_ERR_INVALID_MSG
    ELSE FT_SUCCESS

protocol_validate_header(header) ==
    IF header.magic /= FT_MAGIC_NUMBER THEN FT_ERR_PROTOCOL
    ELSE IF header.version /= FT_PROTOCOL_VERSION THEN FT_ERR_VERSION
    ELSE IF header.msg_type < MSG_HANDSHAKE_REQ
            \/ (header.msg_type > MSG_VERIFY_RESPONSE /\ header.msg_type /= MSG_ERROR)
    THEN FT_ERR_INVALID_MSG
    ELSE FT_SUCCESS

\* the frame put on the wire by send_chunk; torn = TRUE is a frame of which
\* only a proper prefix was written before socket_send_all failed
ChunkFrame(chunk_id, chunk_offset, data, sequence_num, torn) ==
    Frame(MSG_CHUNK_DATA, sequence_num, FT_CHUNK_HEADER_SIZE + Len(data),
          [chunk_id |-> chunk_id, chunk_offset |-> chunk_offset, chunk_size |-> Len(data),
           chunk_crc32 |-> crc32_compute(data), data |-> data, torn |-> torn])

\* the frame put on the wire by send_chunk_ack
ChunkAckFrame(chunk_id, status, sequence_num) ==
    Frame(MSG_CHUNK_ACK, sequence_num, SIZEOF_ChunkAck, [chunk_id |-> chunk_id, status |-> status])

\* (uint8_t)error_code of send_error
ToU8(x) == x % 256

\* the frame put on the wire by send_error
ErrorFrame(error_code, chunk_id, sequence_num) ==
    Frame(MSG_ERROR, sequence_num, SIZEOF_ErrorMessage,
          [error_code |-> ToU8(error_code), chunk_id |-> chunk_id])

\* the FileInfo prepared by send_file
FileInfoOf(name, file) ==
    [filename |-> SubSeq(name, 1, Min(Len(name), FT_MAX_FILENAME_LEN - 1)),
     file_size |-> Len(file),
     chunk_size |-> ChunkSize,
     total_chunks |-> (Len(file) + ChunkSize - 1) \div ChunkSize]

IsTorn(frame) == frame.msg_type = MSG_CHUNK_DATA /\ frame.magic = FT_MAGIC_NUMBER /\ frame.body.torn

(***************************************************************************)
(* State.                                                                  *)
(***************************************************************************)
VARIABLES
    \* environment
    source,          \* the bytes of the sender's source file when send_file reads its metadata
    source_now,      \* the bytes of the source file as the open FILE reads them now
    filename,        \* metadata.filename, the name put in FILE_INFO
    avail,           \* bytes available in the output directory
    c2s,             \* frames in flight from the sender to the receiver
    s2c,             \* frames in flight from the receiver to the sender
    \* send_file
    spc,             \* where the sender is
    chunk_id,        \* loop variable of the chunk loop
    retry_count,
    s_sequence_num,
    chunk_buffer,
    sent_chunks,
    s_error,         \* last FTErrorCode reported to send_file
    \* receive_file
    rpc,             \* where the receiver is
    file_info,       \* the FileInfo received
    sanitized_name,
    received_chunks,
    r_sequence_num,
    r_error,
    file_open,       \* file != NULL
    \* output directory
    temp_exists, temp_file, final_exists, final_file,
    \* history
    temp_opened,     \* file_open_write has succeeded
    written_ids,     \* chunk ids whose data was written to the temp file
    ok_acked,        \* chunk ids for which the receiver sent CHUNK_ACK{status = 0}
    attempts,        \* send_chunk calls made for the current chunk
    acks_ok_seen,    \* CHUNK_ACK frames with status 0 the sender has received
    last_sent,       \* chunk_id of the last CHUNK_DATA the sender put on the wire, or -1
    sent_of,         \* per chunk id: CHUNK_DATA frames put on the wire, whole or in part
    s_seen,          \* the answers the sender has accepted: <<msg_type, chunk_id>>
    corrupt_of,      \* per chunk id: transmissions that arrived with a CRC mismatch
    other_fault,     \* a fault other than a data CRC mismatch has happened
    \* one structure on its way through the wire encoding
    codec_pc,        \* "off", "value", "wire", "altered" or "received"
    codec_kind,      \* which structure: "header", "file_info", "chunk_header", "chunk_ack", "decoded_header", "error", "peer_chunk"
    codec_value,     \* the structure handed to the serializer
    codec_wire,      \* its bytes on the wire
    codec_result,    \* what the receiving function made of the bytes
    \* one call of socket_connect_with_retry
    conn_pc,         \* "off", "resolve", "loop", "connect", "sleep", "connected" or "failed"
    max_retries,     \* the argument max_retries
    attempt,         \* the loop variable attempt
    delay_ms,        \* the local delay_ms
    conn_error,      \* *error as the call left it
    conn_resolved,   \* the host was turned into an address
    conn_attempts,   \* connect() calls made
    conn_failed,     \* connect() calls that failed
    conn_slept,      \* the arguments of the platform_sleep_ms calls, in order
    \* the server process: main (server_main.c)
    srv_pc,          \* "off", "start", "accept", "transfer" or "exited"
    exit_code,       \* the local exit_code of main
    srv_accepted,    \* connections accepted
    srv_transfers,   \* receive_file calls made
    accept_failures  \* accept() calls that failed

codec_vars == <<codec_pc, codec_kind, codec_value, codec_wire, codec_result>>
connect_vars == <<conn_pc, max_retries, attempt, delay_ms, conn_error, conn_resolved,
                  conn_attempts, conn_failed, conn_slept>>
server_vars == <<srv_pc, exit_code, srv_accepted, srv_transfers, accept_failures>>
\* what no step of a transfer changes
env_vars == <<source, filename, avail, codec_vars, connect_vars, server_vars>>
s_vars == <<spc, chunk_id, retry_count, s_sequence_num, chunk_buffer, sent_chunks, s_error,
           attempts, acks_ok_seen, last_sent, sent_of, s_seen, source_now>>
r_vars == <<rpc, file_info, sanitized_name, received_chunks, r_sequence_num, r_error, file_open>>
fs_vars == <<temp_exists, temp_file, final_exists, final_file, temp_opened, written_ids>>
vars == <<env_vars, c2s, s2c, s_vars, r_vars, fs_vars, ok_acked, corrupt_of, other_fault>>

NoInfo == [filename |-> <<>>, file_size |-> 0, chunk_size |-> 0, total_chunks |-> 0]

SenderTerminated == spc \in {"done", "failed"}
ReceiverTerminated == rpc \in {"done", "failed"}

\* the local variables of send_file and receive_file, and an empty output directory
InitLocals ==
    /\ chunk_id = 0 /\ retry_count = 0 /\ s_sequence_num = 2
    /\ chunk_buffer = <<>> /\ sent_chunks = 0 /\ s_error = FT_SUCCESS
    /\ file_info = NoInfo /\ sanitized_name = <<>>
    /\ received_chunks = 0 /\ r_sequence_num = 2 /\ r_error = FT_SUCCESS /\ file_open = FALSE
    /\ temp_exists = FALSE /\ temp_file = <<>> /\ final_exists = FALSE /\ final_file = <<>>
    /\ temp_opened = FALSE /\ written_ids = {} /\ ok_acked = {} /\ attempts = 0
    /\ acks_ok_seen = 0 /\ last_sent = -1 /\ s_seen = {} /\ source_now = source
    /\ sent_of = [k \in 0..MaxFileSize |-> 0]
    /\ corrupt_of = [k \in 0..MaxFileSize |-> 0] /\ other_fault = FALSE

\* a connection just accepted, both processes at their start
InitCommon ==
    /\ c2s = <<>> /\ s2c = <<>>
    /\ spc = "handshake_send" /\ rpc = "handshake"
    /\ InitLocals

\* no connection is being made
ConnectOff ==
    /\ conn_pc = "off" /\ max_retries = 0 /\ attempt = 0 /\ delay_ms = 0
    /\ conn_error = FT_SUCCESS /\ conn_resolved = FALSE
    /\ conn_attempts = 0 /\ conn_failed = 0 /\ conn_slept = <<>>

\* no server process is looked at: the connection is there from the start
ServerOff ==
    /\ srv_pc = "off" /\ exit_code = 1
    /\ srv_accepted = 0 /\ srv_transfers = 0 /\ accept_failures = 0

\* no structure is being encoded
CodecOff ==
    /\ codec_pc = "off" /\ codec_kind = "none"
    /\ codec_value = <<>> /\ codec_wire = <<>> /\ codec_result = <<>>

\* a transfer of a file of any size up to MaxFileSize under a fixed valid name
Init ==
    /\ source \in {SourceOfSize(n) : n \in 0..MaxFileSize}
    /\ filename = <<"a", ".", "C">>
    /\ avail \in {0, MaxFileSize}
    /\ InitCommon
    /\ CodecOff
    /\ ConnectOff
    /\ ServerOff

\* a transfer of a one-byte file under any name a client can put in FILE_INFO
InitName ==
    /\ source = SourceOfSize(1)
    /\ filename \in Names
    /\ avail = MaxFileSize
    /\ InitCommon
    /\ CodecOff
    /\ ConnectOff
    /\ ServerOff

(***************************************************************************)
(* Transport.                                                              *)
(***************************************************************************)
\* a recv_message that reads whatever payload_size says
recv_message_unchecked(stream, max_payload_size) ==
    LET header == Head(stream)
        validation_result == protocol_validate_header(header)
    IN  IF validation_result /= FT_SUCCESS
        THEN [rc |-> validation_result, header |-> header, rest |-> stream]
        ELSE [rc |-> FT_SUCCESS, header |-> header, rest |-> Tail(stream)]

\* recv_message on a stream that holds at least one frame:
\* [rc, header, rest], rest being what is left in the stream
recv_message(stream, max_payload_size) ==
    LET header == Head(stream)
        validation_result == protocol_validate_header(header)
    IN  IF validation_result /= FT_SUCCESS
        THEN [rc |-> validation_result, header |-> header, rest |-> stream]
        ELSE IF header.payload_size > 0 /\ header.payload_size > max_payload_size
        THEN [rc |-> FT_ERR_PROTOCOL, header |-> header, rest |-> <<Junk>> \o Tail(stream)]
        ELSE [rc |-> FT_SUCCESS, header |-> header, rest |-> Tail(stream)]

\* socket_recv_all on a stream that holds nothing: the peer has closed its
\* socket (recv returns 0) or the receive timeout expires
RecvNothingError(peer_terminated) == IF peer_terminated THEN FT_ERR_RECV ELSE FT_ERR_TIMEOUT

\* a socket on which no receive timeout is in force
SocketTimeoutNever == FALSE

\* socket_set_timeout(sock, FT_TIMEOUT_SECONDS, NULL) has put SO_RCVTIMEO on the socket
SocketTimeoutSet == TRUE

\* a blocking receive returns: bytes have arrived, the peer has closed the
\* connection, or the receive timeout expires
RecvReturns(stream, peer_terminated) == stream /= <<>> \/ peer_terminated \/ SocketTimeoutSet

\* the error socket_send_all reports when send fails
SendErrors == {FT_ERR_SEND, FT_ERR_TIMEOUT}

(***************************************************************************)
(* The sender: send_file (client_main.c).                                  *)
(***************************************************************************)
SenderInfo == FileInfoOf(filename, source)

s_loop_vars == <<chunk_id, retry_count, chunk_buffer, sent_chunks, attempts, acks_ok_seen, last_sent,
                 sent_of, source_now>>

\* the protocol_version the handshake code finds in the HandshakePayload it
\* handed to recv_message: the first payload byte, or, when the message has
\* no payload, what the structure on the stack held
payload_version_read(header) ==
    IF header.payload_size > 0 THEN {header.body.protocol_version} ELSE StackBytes

\* perform_handshake_client: send_message(MSG_HANDSHAKE_REQ, 0)
S_HandshakeSend ==
    /\ spc = "handshake_send"
    /\ \/ /\ c2s' = Append(c2s, Frame(MSG_HANDSHAKE_REQ, 0, SIZEOF_HandshakePayload,
                                      [protocol_version |-> FT_PROTOCOL_VERSION]))
          /\ spc' = "handshake_recv"
          /\ s_error' = FT_SUCCESS
          /\ UNCHANGED other_fault
       \/ /\ \E e \in SendErrors : s_error' = e
          /\ spc' = "failed"
          /\ other_fault' = TRUE
          /\ UNCHANGED c2s
    /\ UNCHANGED <<env_vars, s2c, s_loop_vars, s_sequence_num, s_seen, r_vars, fs_vars, ok_acked,
                   corrupt_of>>

\* perform_handshake_client: recv_message and the checks of the reply
S_HandshakeRecv ==
    /\ spc = "handshake_recv"
    /\ RecvReturns(s2c, ReceiverTerminated)
    /\ IF s2c = <<>>
       THEN /\ s_error' = RecvNothingError(ReceiverTerminated)
            /\ spc' = "failed"
            /\ other_fault' = (other_fault \/ ~ReceiverTerminated)
            /\ UNCHANGED <<s2c, s_seen>>
       ELSE LET r == recv_message(s2c, SIZEOF_HandshakePayload)
            IN  /\ s2c' = r.rest
                /\ UNCHANGED other_fault
                /\ IF r.rc /= FT_SUCCESS
                   THEN s_error' = r.rc /\ spc' = "failed" /\ UNCHANGED s_seen
                   ELSE IF r.header.msg_type /= MSG_HANDSHAKE_ACK
                   THEN s_error' = FT_ERR_PROTOCOL /\ spc' = "failed" /\ UNCHANGED s_seen
                   ELSE \E protocol_version \in payload_version_read(r.header) :
                        IF protocol_version /= FT_PROTOCOL_VERSION
                        THEN s_error' = FT_ERR_VERSION /\ spc' = "failed" /\ UNCHANGED s_seen
                        ELSE /\ s_error' = FT_SUCCESS /\ spc' = "file_info_send"
                             /\ s_seen' = s_seen \cup {<<MSG_HANDSHAKE_ACK, 0>>}
    /\ UNCHANGED <<env_vars, c2s, s_loop_vars, s_sequence_num, r_vars, fs_vars, ok_acked, corrupt_of>>

\* send_file_info(server_sock, &file_info, sequence_num++)
S_SendFileInfo ==
    /\ spc = "file_info_send"
    /\ s_sequence_num' = s_sequence_num + 1
    /\ \/ /\ c2s' = Append(c2s, Frame(MSG_FILE_INFO, s_sequence_num, FT_FILE_INFO_SIZE, SenderInfo))
          /\ spc' = "file_ack_recv"
          /\ s_error' = FT_SUCCESS
          /\ UNCHANGED other_fault
       \/ /\ \E e \in SendErrors : s_error' = e
          /\ spc' = "failed"
          /\ other_fault' = TRUE
          /\ UNCHANGED c2s
    /\ UNCHANGED <<env_vars, s2c, s_loop_vars, s_seen, r_vars, fs_vars, ok_acked, corrupt_of>>

\* recv_message for the FILE_ACK, the type checks, malloc of the chunk buffer
\* and the entry of the chunk loop
S_RecvFileAck ==
    /\ spc = "file_ack_recv"
    /\ RecvReturns(s2c, ReceiverTerminated)
    /\ IF s2c = <<>>
       THEN /\ s_error' = RecvNothingError(ReceiverTerminated)
            /\ spc' = "failed"
            /\ other_fault' = (other_fault \/ ~ReceiverTerminated)
            /\ UNCHANGED <<s2c, s_seen>>
       ELSE LET r == recv_message(s2c, ACK_BUF_SIZE)
            IN  /\ s2c' = r.rest
                /\ s_seen' = IF r.rc = FT_SUCCESS /\ r.header.msg_type = MSG_FILE_ACK
                             THEN s_seen \cup {<<MSG_FILE_ACK, 0>>} ELSE s_seen
                /\ IF r.rc /= FT_SUCCESS
                   THEN s_error' = r.rc /\ spc' = "failed" /\ UNCHANGED other_fault
                   ELSE IF r.header.msg_type = MSG_ERROR
                   THEN s_error' = r.header.body.error_code /\ spc' = "failed" /\ UNCHANGED other_fault
                   ELSE IF r.header.msg_type /= MSG_FILE_ACK
                   THEN s_error' = FT_ERR_PROTOCOL /\ spc' = "failed" /\ UNCHANGED other_fault
                   ELSE \/ /\ s_error' = FT_SUCCESS
                           /\ spc' = IF 0 < SenderInfo.total_chunks THEN "read" ELSE "done"
                           /\ UNCHANGED other_fault
                        \/ \* malloc(file_info.chunk_size) returns NULL
                           /\ s_error' = FT_SUCCESS
                           /\ spc' = "failed"
                           /\ other_fault' = TRUE
    /\ UNCHANGED <<env_vars, c2s, s_loop_vars, s_sequence_num, r_vars, fs_vars, ok_acked, corrupt_of>>

\* uint64_t chunk_offset = chunk_id * file_info.chunk_size;
chunk_offset_of(id, info) == id * info.chunk_size

\* size_t bytes_to_read = file_info.chunk_size; the last chunk may be smaller
bytes_to_read(id, info) ==
    IF chunk_offset_of(id, info) + info.chunk_size > info.file_size
    THEN info.file_size - chunk_offset_of(id, info)
    ELSE info.chunk_size

\* what the open FILE reads at the time of a read: the file as it was, or what
\* is left of it after another process has truncated it (once in a transfer)
TruncationsOf(file, original) ==
    IF file = original
    THEN {SubSeq(file, 1, n) : n \in (IF Len(file) > MaxTruncated THEN Len(file) - MaxTruncated ELSE 0)..Len(file)}
    ELSE {file}

\* the head of one iteration of the chunk loop: offset, size, file_read_chunk
\* on the file as it is at the time of the read
S_ReadChunk ==
    /\ spc = "read"
    /\ LET chunk_offset == chunk_offset_of(chunk_id, SenderInfo)
       IN  \/ \E now \in TruncationsOf(source_now, source) :
                /\ source_now' = now
                /\ chunk_buffer' = file_read_chunk(now, chunk_offset,
                                                   bytes_to_read(chunk_id, SenderInfo))
                /\ retry_count' = 0
                /\ attempts' = 0
                /\ s_error' = FT_SUCCESS
                /\ spc' = "send"
                /\ other_fault' = (other_fault \/ now /= source_now)
           \/ \* fseeko fails, or fread reads nothing and ferror is set
              /\ \E e \in {FT_ERR_FILE_SEEK, FT_ERR_FILE_READ} : s_error' = e
              /\ spc' = "failed"
              /\ other_fault' = TRUE
              /\ UNCHANGED <<chunk_buffer, retry_count, attempts, source_now>>
    /\ UNCHANGED <<env_vars, c2s, s2c, chunk_id, sent_chunks, s_sequence_num, r_vars, fs_vars,
                   ok_acked, corrupt_of, acks_ok_seen, last_sent, sent_of, s_seen>>

\* the retry limit tested one attempt too late
RetriesExhaustedLate(count) == count > FT_MAX_RETRIES

\* if (retry_count >= FT_MAX_RETRIES) goto cleanup;
RetriesExhausted(count) == count >= FT_MAX_RETRIES

\* retry_count++; if (retry_count >= FT_MAX_RETRIES) goto cleanup; continue;
SenderRetry(err) ==
    /\ retry_count' = retry_count + 1
    /\ spc' = IF RetriesExhausted(retry_count + 1) THEN "failed" ELSE "send"
    /\ s_error' = err

\* the status of the acknowledgement not looked at
AckStatusIgnored(ack) == FALSE

\* if (ack.status != 0): the receiver requested a retransmit
AckRequestsRetransmit(ack) == ack.status /= 0

\* send_chunk(server_sock, chunk_id, chunk_offset, chunk_buffer, bytes_read, sequence_num++)
S_SendChunk ==
    /\ spc = "send"
    /\ retry_count < FT_MAX_RETRIES
    /\ s_sequence_num' = s_sequence_num + 1
    /\ attempts' = attempts + 1
    /\ LET chunk_offset == chunk_offset_of(chunk_id, SenderInfo)
       IN  \/ /\ c2s' = Append(c2s, ChunkFrame(chunk_id, chunk_offset, chunk_buffer,
                                               s_sequence_num, FALSE))
              /\ spc' = "recv_ack"
              /\ s_error' = FT_SUCCESS
              /\ last_sent' = chunk_id
              /\ sent_of' = [sent_of EXCEPT ![chunk_id] = @ + 1]
              /\ UNCHANGED <<retry_count, other_fault>>
           \/ \* socket_send_all fails before any byte of the frame is written
              /\ \E e \in SendErrors : SenderRetry(e)
              /\ other_fault' = TRUE
              /\ UNCHANGED <<c2s, last_sent, sent_of>>
           \/ \* socket_send_all fails after a part of the frame was written
              /\ c2s' = Append(c2s, ChunkFrame(chunk_id, chunk_offset, chunk_buffer,
                                               s_sequence_num, TRUE))
              /\ \E e \in SendErrors : SenderRetry(e)
              /\ last_sent' = chunk_id
              /\ sent_of' = [sent_of EXCEPT ![chunk_id] = @ + 1]
              /\ other_fault' = TRUE
    /\ UNCHANGED <<env_vars, s2c, chunk_id, chunk_buffer, sent_chunks, r_vars, fs_vars,
                   ok_acked, corrupt_of, acks_ok_seen, s_seen, source_now>>

\* recv_chunk_ack, the status check, and the end of the iteration
S_RecvChunkAck ==
    /\ spc = "recv_ack"
    /\ RecvReturns(s2c, ReceiverTerminated)
    /\ IF s2c = <<>>
       THEN /\ SenderRetry(RecvNothingError(ReceiverTerminated))
            /\ other_fault' = (other_fault \/ ~ReceiverTerminated)
            /\ UNCHANGED <<s2c, chunk_id, sent_chunks, acks_ok_seen, s_seen>>
       ELSE LET r == recv_message(s2c, ACK_BUF_SIZE)
            IN  /\ s2c' = r.rest
                /\ UNCHANGED other_fault
                /\ s_seen' = IF /\ r.rc = FT_SUCCESS
                                /\ r.header.msg_type = MSG_CHUNK_ACK
                                /\ r.header.body.status = 0
                             THEN s_seen \cup {<<MSG_CHUNK_ACK, r.header.body.chunk_id>>}
                             ELSE s_seen
                /\ acks_ok_seen' = IF /\ r.rc = FT_SUCCESS
                                      /\ r.header.msg_type = MSG_CHUNK_ACK
                                      /\ r.header.body.status = 0
                                   THEN acks_ok_seen + 1 ELSE acks_ok_seen
                /\ IF r.rc /= FT_SUCCESS
                   THEN SenderRetry(r.rc) /\ UNCHANGED <<chunk_id, sent_chunks>>
                   ELSE IF r.header.msg_type /= MSG_CHUNK_ACK
                   THEN SenderRetry(FT_ERR_PROTOCOL) /\ UNCHANGED <<chunk_id, sent_chunks>>
                   ELSE IF AckRequestsRetransmit(r.header.body)
                   THEN SenderRetry(FT_SUCCESS) /\ UNCHANGED <<chunk_id, sent_chunks>>
                   ELSE /\ sent_chunks' = sent_chunks + 1
                        /\ chunk_id' = chunk_id + 1
                        /\ spc' = IF chunk_id + 1 < SenderInfo.total_chunks THEN "read" ELSE "done"
                        /\ s_error' = FT_SUCCESS
                        /\ UNCHANGED retry_count
    /\ UNCHANGED <<env_vars, c2s, chunk_buffer, attempts, s_sequence_num, r_vars, fs_vars,
                   ok_acked, corrupt_of, last_sent, sent_of, source_now>>

SenderNext ==
    \/ S_HandshakeSend \/ S_HandshakeRecv \/ S_SendFileInfo \/ S_RecvFileAck
    \/ S_ReadChunk \/ S_SendChunk \/ S_RecvChunkAck

(***************************************************************************)
(* The receiver: receive_file (server_main.c).                             *)
(***************************************************************************)
r_loop_vars == <<received_chunks, written_ids, ok_acked, corrupt_of>>

\* a send whose result the caller ignores (send_error, the retry ack): the
\* frame reaches the stream, or send fails and it does not
SendIgnoringResult(frame) ==
    \/ s2c' = Append(s2c, frame) /\ UNCHANGED other_fault
    \/ UNCHANGED s2c /\ other_fault' = TRUE

\* the cleanup label of receive_file reached with result != 0: does the temp
\* path exist afterwards?  if (file != NULL) { fclose(file); file_delete(temp_path); }
cleanup_temp_exists(file_not_null, exists) == IF file_not_null THEN FALSE ELSE exists

\* goto cleanup with result != 0, from a place where the temp file, if any, is open
CleanupFailed(err) ==
    /\ rpc' = "failed"
    /\ r_error' = err
    /\ file_open' = FALSE
    /\ temp_exists' = cleanup_temp_exists(file_open, temp_exists)

\* perform_handshake_server
R_Handshake ==
    /\ rpc = "handshake"
    /\ RecvReturns(c2s, SenderTerminated)
    /\ IF c2s = <<>>
       THEN /\ r_error' = RecvNothingError(SenderTerminated)
            /\ rpc' = "failed"
            /\ other_fault' = (other_fault \/ ~SenderTerminated)
            /\ UNCHANGED <<c2s, s2c>>
       ELSE LET r == recv_message(c2s, SIZEOF_HandshakePayload)
            IN  /\ c2s' = r.rest
                /\ IF r.rc /= FT_SUCCESS
                   THEN r_error' = r.rc /\ rpc' = "failed" /\ UNCHANGED <<s2c, other_fault>>
                   ELSE IF r.header.msg_type /= MSG_HANDSHAKE_REQ
                   THEN r_error' = FT_ERR_PROTOCOL /\ rpc' = "failed" /\ UNCHANGED <<s2c, other_fault>>
                   ELSE \E protocol_version \in payload_version_read(r.header) :
                        IF protocol_version /= FT_PROTOCOL_VERSION
                        THEN r_error' = FT_ERR_VERSION /\ rpc' = "failed" /\ UNCHANGED <<s2c, other_fault>>
                        ELSE \/ /\ s2c' = Append(s2c, Frame(MSG_HANDSHAKE_ACK, r.header.sequence_num + 1,
                                                            SIZEOF_HandshakePayload,
                                                            [protocol_version |-> FT_PROTOCOL_VERSION]))
                                /\ r_error' = FT_SUCCESS
                                /\ rpc' = "file_info"
                                /\ UNCHANGED other_fault
                             \/ /\ \E e \in SendErrors : r_error' = e
                                /\ rpc' = "failed"
                                /\ other_fault' = TRUE
                                /\ UNCHANGED s2c
    /\ UNCHANGED <<env_vars, s_vars, file_info, sanitized_name, r_sequence_num, file_open,
                   fs_vars, r_loop_vars>>

\* recv_file_info
R_RecvFileInfo ==
    /\ rpc = "file_info"
    /\ RecvReturns(c2s, SenderTerminated)
    /\ IF c2s = <<>>
       THEN /\ r_error' = RecvNothingError(SenderTerminated)
            /\ rpc' = "failed"
            /\ other_fault' = (other_fault \/ ~SenderTerminated)
            /\ UNCHANGED <<c2s, file_info>>
       ELSE LET r == recv_message(c2s, FT_FILE_INFO_SIZE)
            IN  /\ c2s' = r.rest
                /\ UNCHANGED other_fault
                /\ IF r.rc /= FT_SUCCESS
                   THEN r_error' = r.rc /\ rpc' = "failed" /\ UNCHANGED file_info
                   ELSE IF r.header.msg_type /= MSG_FILE_INFO
                   THEN r_error' = FT_ERR_PROTOCOL /\ rpc' = "failed" /\ UNCHANGED file_info
                   ELSE r_error' = FT_SUCCESS /\ rpc' = "prepare" /\ file_info' = r.header.body
    /\ UNCHANGED <<env_vars, s2c, s_vars, sanitized_name, r_sequence_num, file_open,
                   fs_vars, r_loop_vars>>

\* a loop condition that asks for one chunk more than there are
ChunksMissingInclusive(received, total) == received <= total

\* while (received_chunks < file_info.total_chunks)
ChunksMissing(received, total) == received < total

\* a recv_chunk that does not compare the checksums
CrcNeverCompared(data, chunk_crc32) == FALSE

\* recv_chunk: computed_crc != chunk_hdr->chunk_crc32
CrcMismatch(data, chunk_crc32) == crc32_compute(data) /= chunk_crc32

\* a check that wants more room than the file needs
file_check_disk_space_strict(available, required_bytes) == available > required_bytes

\* file_check_disk_space(output_dir, required_bytes) succeeds
file_check_disk_space(available, required_bytes) == ~(available < required_bytes)

\* receive_file from the sanitizing of the name to the entry of the chunk loop
R_Prepare ==
    /\ rpc = "prepare"
    /\ LET san == file_sanitize_filename(file_info.filename, FT_MAX_FILENAME_LEN)
       IN  IF san.rc /= FT_SUCCESS
           THEN /\ SendIgnoringResult(ErrorFrame(FT_ERR_INVALID_ARG, 0, r_sequence_num))
                /\ rpc' = "failed"
                /\ r_sequence_num' = r_sequence_num + 1
                /\ UNCHANGED <<r_error, sanitized_name, file_open, temp_exists, temp_file, temp_opened>>
           ELSE IF ~file_check_disk_space(avail, file_info.file_size)
           THEN /\ SendIgnoringResult(ErrorFrame(FT_ERR_DISK_FULL, 0, r_sequence_num))
                /\ rpc' = "failed"
                /\ r_error' = FT_ERR_DISK_FULL
                /\ r_sequence_num' = r_sequence_num + 1
                /\ sanitized_name' = san.name
                /\ UNCHANGED <<file_open, temp_exists, temp_file, temp_opened>>
           ELSE \/ \* fopen(temp_path, "wb") fails
                   /\ \/ s2c' = Append(s2c, ErrorFrame(FT_ERR_FILE_OPEN, 0, r_sequence_num))
                      \/ UNCHANGED s2c
                   /\ other_fault' = TRUE
                   /\ rpc' = "failed"
                   /\ r_error' = FT_ERR_FILE_OPEN
                   /\ r_sequence_num' = r_sequence_num + 1
                   /\ sanitized_name' = san.name
                   /\ UNCHANGED <<file_open, temp_exists, temp_file, temp_opened>>
                \/ \* the temp file is created; FILE_ACK is sent; malloc succeeds
                   /\ s2c' = Append(s2c, Frame(MSG_FILE_ACK, r_sequence_num, SIZEOF_FileAck,
                                               [status |-> 0, error_code |-> 0]))
                   /\ sanitized_name' = san.name
                   /\ temp_opened' = TRUE /\ temp_exists' = TRUE /\ temp_file' = <<>>
                   /\ file_open' = TRUE
                   /\ r_error' = FT_SUCCESS
                   /\ rpc' = IF ChunksMissing(0, file_info.total_chunks) THEN "chunks" ELSE "finalize"
                   /\ r_sequence_num' = r_sequence_num + 1
                   /\ UNCHANGED other_fault
                \/ \* the temp file is created; sending FILE_ACK fails: goto cleanup
                   /\ sanitized_name' = san.name
                   /\ temp_opened' = TRUE /\ temp_exists' = cleanup_temp_exists(TRUE, TRUE) /\ temp_file' = <<>>
                   /\ file_open' = FALSE
                   /\ \E e \in SendErrors : r_error' = e
                   /\ rpc' = "failed"
                   /\ other_fault' = TRUE
                   /\ r_sequence_num' = r_sequence_num + 1
                   /\ UNCHANGED s2c
                \/ \* the temp file is created; FILE_ACK is sent; malloc fails;
                   \* send_error(OUT_OF_MEMORY, sequence_num++) reaches the stream; goto cleanup
                   /\ s2c' = Append(Append(s2c, Frame(MSG_FILE_ACK, r_sequence_num, SIZEOF_FileAck,
                                                      [status |-> 0, error_code |-> 0])),
                                    ErrorFrame(FT_ERR_OUT_OF_MEMORY, 0, r_sequence_num + 1))
                   /\ sanitized_name' = san.name
                   /\ temp_opened' = TRUE /\ temp_exists' = cleanup_temp_exists(TRUE, TRUE) /\ temp_file' = <<>>
                   /\ file_open' = FALSE
                   /\ r_error' = FT_SUCCESS
                   /\ rpc' = "failed"
                   /\ r_sequence_num' = r_sequence_num + 2
                   /\ other_fault' = TRUE
    /\ UNCHANGED <<env_vars, c2s, s_vars, file_info, final_exists, final_file, r_loop_vars>>

\* what recv_chunk may find in the data bytes of an intact frame: the bytes
\* sent, or the bytes with one of them altered in transit
Arrivals(data) == IF data = <<>> THEN {data} ELSE {data, CorruptData(data)}

\* send_chunk_ack(client_sock, chunk_hdr.chunk_id, 1, sequence_num++, NULL); continue;
RetryAck(id) ==
    /\ SendIgnoringResult(ChunkAckFrame(id, 1, r_sequence_num))
    /\ r_sequence_num' = r_sequence_num + 1
    /\ r_error' = FT_ERR_CHECKSUM
    /\ UNCHANGED <<rpc, file_open, temp_exists, temp_file, received_chunks, written_ids, ok_acked>>

\* one iteration of the chunk loop: recv_chunk, file_write_chunk, send_chunk_ack
R_RecvChunk ==
    /\ rpc = "chunks"
    /\ ChunksMissing(received_chunks, file_info.total_chunks)
    /\ RecvReturns(IF Len(c2s) = 1 /\ IsTorn(Head(c2s)) THEN <<>> ELSE c2s, SenderTerminated)
    /\ IF c2s = <<>> \/ (Len(c2s) = 1 /\ IsTorn(Head(c2s)))
       THEN \* nothing, or not all of a frame, arrives
            /\ CleanupFailed(RecvNothingError(SenderTerminated))
            /\ other_fault' = (other_fault \/ ~SenderTerminated)
            /\ UNCHANGED <<c2s, s2c, r_sequence_num, temp_file, r_loop_vars>>
       ELSE LET msg_hdr == Head(c2s)
                chunk_hdr == msg_hdr.body
            IN  IF protocol_validate_header(msg_hdr) /= FT_SUCCESS
                THEN /\ CleanupFailed(FT_ERR_PROTOCOL)
                     /\ UNCHANGED <<c2s, s2c, r_sequence_num, temp_file, r_loop_vars, other_fault>>
                ELSE IF msg_hdr.msg_type /= MSG_CHUNK_DATA
                THEN /\ CleanupFailed(FT_ERR_PROTOCOL)
                     /\ c2s' = <<Junk>> \o Tail(c2s)
                     /\ UNCHANGED <<s2c, r_sequence_num, temp_file, r_loop_vars, other_fault>>
                ELSE IF IsTorn(msg_hdr)
                THEN \* the frame is completed with bytes of the next one
                     /\ c2s' = <<Junk>> \o Tail(Tail(c2s))
                     /\ \/ /\ CleanupFailed(FT_ERR_PROTOCOL)
                           /\ UNCHANGED <<s2c, r_sequence_num, temp_file, r_loop_vars, other_fault>>
                        \/ /\ RetryAck(chunk_hdr.chunk_id)
                           /\ UNCHANGED corrupt_of
                ELSE IF chunk_hdr.chunk_size > file_info.chunk_size
                THEN /\ CleanupFailed(FT_ERR_PROTOCOL)
                     /\ c2s' = <<Junk>> \o Tail(c2s)
                     /\ UNCHANGED <<s2c, r_sequence_num, temp_file, r_loop_vars, other_fault>>
                ELSE \E data \in Arrivals(chunk_hdr.data) :
                     /\ c2s' = Tail(c2s)
                     /\ corrupt_of' = IF data /= chunk_hdr.data
                                      THEN [corrupt_of EXCEPT ![chunk_hdr.chunk_id] = @ + 1]
                                      ELSE corrupt_of
                     /\ IF CrcMismatch(data, chunk_hdr.chunk_crc32)
                        THEN RetryAck(chunk_hdr.chunk_id)
                        ELSE \/ \* file_write_chunk fails: send_error, goto cleanup
                                /\ \E e \in {FT_ERR_FILE_WRITE, FT_ERR_DISK_FULL} : CleanupFailed(e)
                                /\ s2c' = Append(s2c, ErrorFrame(r_error', chunk_hdr.chunk_id,
                                                                 r_sequence_num))
                                /\ r_sequence_num' = r_sequence_num + 1
                                /\ other_fault' = TRUE
                                /\ UNCHANGED <<temp_file, received_chunks, written_ids, ok_acked>>
                             \/ \* the chunk is written; sending the ack fails: goto cleanup
                                /\ temp_file' = file_write_chunk(temp_file, chunk_hdr.chunk_offset, data)
                                /\ written_ids' = written_ids \cup {chunk_hdr.chunk_id}
                                /\ \E e \in SendErrors : CleanupFailed(e)
                                /\ r_sequence_num' = r_sequence_num + 1
                                /\ other_fault' = TRUE
                                /\ UNCHANGED <<s2c, received_chunks, ok_acked>>
                             \/ \* the chunk is written and acknowledged
                                /\ temp_file' = file_write_chunk(temp_file, chunk_hdr.chunk_offset, data)
                                /\ written_ids' = written_ids \cup {chunk_hdr.chunk_id}
                                /\ s2c' = Append(s2c, ChunkAckFrame(chunk_hdr.chunk_id, 0, r_sequence_num))
                                /\ ok_acked' = ok_acked \cup {chunk_hdr.chunk_id}
                                /\ r_sequence_num' = r_sequence_num + 1
                                /\ received_chunks' = received_chunks + 1
                                /\ rpc' = IF ChunksMissing(received_chunks + 1, file_info.total_chunks)
                                          THEN "chunks" ELSE "finalize"
                                /\ r_error' = FT_SUCCESS
                                /\ UNCHANGED <<file_open, temp_exists, other_fault>>
    /\ UNCHANGED <<env_vars, s_vars, file_info, sanitized_name, final_exists, final_file, temp_opened>>

\* fclose(file); file = NULL; file_build_path; file_finalize_write; result = 0
R_Finalize ==
    /\ rpc = "finalize"
    /\ file_open' = FALSE
    /\ \/ \* rename(temp_path, final_path) succeeds
          /\ RenamePossible(sanitized_name)
          /\ final_exists' = TRUE
          /\ final_file' = temp_file
          /\ temp_exists' = FALSE
          /\ rpc' = "done"
          /\ UNCHANGED <<r_error, other_fault>>
       \/ \* rename fails: goto cleanup, where file == NULL
          /\ temp_exists' = cleanup_temp_exists(FALSE, temp_exists)
          /\ rpc' = "failed"
          /\ other_fault' = TRUE
          /\ UNCHANGED <<r_error, final_exists, final_file>>
    /\ UNCHANGED <<env_vars, c2s, s2c, s_vars, file_info, sanitized_name, r_sequence_num,
                   temp_file, temp_opened, r_loop_vars>>

ReceiverNext == R_Handshake \/ R_RecvFileInfo \/ R_Prepare \/ R_RecvChunk \/ R_Finalize

(***************************************************************************)
(* Specifications.                                                         *)
(***************************************************************************)
Next ==
    \/ S_HandshakeSend \/ S_HandshakeRecv \/ S_SendFileInfo \/ S_RecvFileAck
    \/ S_ReadChunk \/ S_SendChunk \/ S_RecvChunkAck
    \/ R_Handshake \/ R_RecvFileInfo \/ R_Prepare \/ R_RecvChunk \/ R_Finalize

Spec == Init /\ [][Next]_vars

SpecName == InitName /\ [][Next]_vars

\* every blocking call of either process returns: with data, a timeout or an error
FairSpec == Spec /\ WF_vars(SenderNext) /\ WF_vars(ReceiverNext)

\* the runs in which a data CRC mismatch is the only kind of fault: no send
\* fails, no receive times out, no file operation or allocation fails
NextCrcFaultsOnly ==
    \/ S_HandshakeSend /\ ~other_fault'
    \/ S_HandshakeRecv /\ ~other_fault'
    \/ S_SendFileInfo /\ ~other_fault'
    \/ S_RecvFileAck /\ ~other_fault'
    \/ S_ReadChunk /\ ~other_fault'
    \/ S_SendChunk /\ ~other_fault'
    \/ S_RecvChunkAck /\ ~other_fault'
    \/ R_Handshake /\ ~other_fault'
    \/ R_RecvFileInfo /\ ~other_fault'
    \/ R_Prepare /\ ~other_fault'
    \/ R_RecvChunk /\ ~other_fault'
    \/ R_Finalize /\ ~other_fault'

SpecCrcFaultsOnly == Init /\ [][NextCrcFaultsOnly]_vars /\ WF_vars(NextCrcFaultsOnly)

(***************************************************************************)
(* The handshake against a peer that is not this program: the first        *)
(* message on the connection is any message.  One side of this program     *)
(* runs, the other is absent.                                              *)
(***************************************************************************)
PeerMessages ==
    [magic : {FT_MAGIC_NUMBER, <<0, 0>>}, version : {FT_PROTOCOL_VERSION, 2},
     msg_type : {0, MSG_HANDSHAKE_REQ, MSG_HANDSHAKE_ACK, MSG_FILE_INFO, MSG_ERROR},
     sequence_num : {0, 7}, payload_size : {0, SIZEOF_HandshakePayload, 5},
     body : [protocol_version : {0, FT_PROTOCOL_VERSION, 2}]]

InitPeer ==
    /\ source = <<>> /\ filename = <<"a">> /\ avail = 0
    /\ InitLocals
    /\ CodecOff
    /\ ConnectOff
    /\ ServerOff
    /\ \E m \in PeerMessages :
          \/ c2s = <<m>> /\ s2c = <<>> /\ rpc = "handshake" /\ spc = "absent"
          \/ s2c = <<m>> /\ c2s = <<>> /\ spc = "handshake_recv" /\ rpc = "absent"

NextPeer ==
    \/ R_Handshake
    \/ S_HandshakeRecv

SpecPeer == InitPeer /\ [][NextPeer]_vars

(***************************************************************************)
(* The wire encoding on its own: one structure is serialized, its bytes    *)
(* may be altered in transit, and the receiving function decodes them.     *)
(***************************************************************************)
\* the headers send_message and others can hand to protocol_serialize_header
Headers ==
    [magic : {FT_MAGIC_NUMBER}, version : {FT_PROTOCOL_VERSION},
     msg_type : {MSG_HANDSHAKE_REQ, MSG_FILE_INFO, MSG_CHUNK_DATA, MSG_CHUNK_ACK},
     flags : {0, 258}, sequence_num : {0, 2, 65537},
     payload_size : {0, 4, 12, 26, 1024},
     checksum : {<<0, 0>>, <<1, 2>>}, reserved : {<<0, 0>>, <<0, 7>>}]

\* char filename[256]: the name, NUL padding, and the last byte of the field
FilenameField(name, last) ==
    name \o Filled(FT_MAX_FILENAME_LEN - 1 - Len(name), 0) \o <<last>>

FileInfos ==
    {[filename_len |-> Len(name), filename |-> FilenameField(name, last),
      file_size |-> size, total_chunks |-> (size + csize - 1) \div csize, chunk_size |-> csize,
      checksum_type |-> 0, file_checksum |-> Filled(FT_SHA256_SIZE, 0),
      file_mode |-> mode, timestamp |-> 1700000000, reserved |-> Filled(FILE_INFO_RESERVED, res)] :
        name \in {<<97>>, <<97, 46, 67>>}, last \in {0, 120}, size \in {0, 5},
        csize \in {2, 524288}, mode \in {0, 420}, res \in {0, 1}}

ChunkHeaders ==
    [chunk_id : {0, 1, 300}, chunk_offset : {0, 2, 524288}, chunk_size : {0, 1, 2},
     chunk_crc32 : {<<0, 0>>, <<53931, 48333>>}]

ChunkAcks ==
    [chunk_id : {0, 1, 300}, status : {0, 1},
     reserved : {Filled(CHUNK_ACK_RESERVED, 0), <<1, 2, 3>>}]

\* the chunk headers a peer can put in front of its data: any chunk_size
FT_DEFAULT_CHUNK_SIZE == 524288
PeerChunkHeaders ==
    [chunk_id : {0, 1}, chunk_offset : {0, ChunkSize},
     chunk_size : (0..(ChunkSize + 2)) \cup {FT_DEFAULT_CHUNK_SIZE, FT_DEFAULT_CHUNK_SIZE + 1},
     chunk_crc32 : {<<0, 0>>, <<53931, 48333>>}]

\* the send_error calls of receive_file: the code, the chunk, the text
ErrorCalls ==
    [error_code : {FT_ERR_INVALID_ARG, FT_ERR_DISK_FULL, FT_ERR_FILE_OPEN, FT_ERR_FILE_WRITE,
                   FT_ERR_OUT_OF_MEMORY},
     chunk_id : {0, 1, 300}, message : {<<>>, <<79, 117, 116>>}]

\* the headers protocol_validate_header can be handed after deserialization:
\* any magic, any version, any msg_type byte
DecodedHeaders ==
    [magic : {FT_MAGIC_NUMBER, <<17988, 17233>>, <<0, 0>>}, version : {0, FT_PROTOCOL_VERSION, 2},
     msg_type : (0..10) \cup {128, 254, 255}]

InitCodec ==
    /\ source = <<>> /\ filename = <<"a">> /\ avail = 0
    /\ InitCommon
    /\ codec_pc = "value"
    /\ \/ codec_kind = "header" /\ codec_value \in Headers
       \/ codec_kind = "file_info" /\ codec_value \in FileInfos
       \/ codec_kind = "chunk_header" /\ codec_value \in ChunkHeaders
       \/ codec_kind = "chunk_ack" /\ codec_value \in ChunkAcks
       \/ codec_kind = "decoded_header" /\ codec_value \in DecodedHeaders
       \/ codec_kind = "error" /\ codec_value \in ErrorCalls
       \/ codec_kind = "peer_chunk" /\ codec_value \in PeerChunkHeaders
    /\ codec_wire = <<>> /\ codec_result = <<>>
    /\ ConnectOff
    /\ ServerOff

transfer_vars == <<source, filename, avail, c2s, s2c, s_vars, r_vars, fs_vars,
                   ok_acked, corrupt_of, other_fault, connect_vars, server_vars>>

\* the header stage of recv_message on the 32 bytes read: the return code and
\* the number of payload bytes it goes on to read
recv_message_header(header_buf, max_payload_size) ==
    LET header == protocol_deserialize_header(header_buf)
        rc == recv_message(<<header>>, max_payload_size).rc
    IN  [rc |-> rc, header |-> header, max_payload_size |-> max_payload_size,
         payload_read |-> IF rc = FT_SUCCESS THEN header.payload_size ELSE 0]

\* the header stage of recv_chunk: on success it goes on to read the chunk header
recv_chunk_header(msg_hdr_buf) ==
    LET msg_hdr == protocol_deserialize_header(msg_hdr_buf)
    IN  IF protocol_validate_header(msg_hdr) /= FT_SUCCESS
        THEN [rc |-> FT_ERR_PROTOCOL, header |-> msg_hdr, payload_read |-> 0]
        ELSE IF msg_hdr.msg_type /= MSG_CHUNK_DATA
        THEN [rc |-> FT_ERR_PROTOCOL, header |-> msg_hdr, payload_read |-> 0]
        ELSE [rc |-> FT_SUCCESS, header |-> msg_hdr, payload_read |-> FT_CHUNK_HEADER_SIZE]

\* a recv_chunk that reads chunk_size data bytes whatever the buffer holds
recv_chunk_data_unchecked(chunk_hdr_buf, max_data_size, computed_crc) ==
    LET chunk_hdr == protocol_deserialize_chunk_header(chunk_hdr_buf)
    IN  [rc |-> IF computed_crc /= chunk_hdr.chunk_crc32 THEN FT_ERR_CHECKSUM ELSE FT_SUCCESS,
         chunk_hdr |-> chunk_hdr, max_data_size |-> max_data_size,
         data_read |-> chunk_hdr.chunk_size]

\* recv_chunk from the chunk header on: the size check, the data bytes read
\* into the caller's buffer, the CRC comparison; computed_crc is the CRC-32
\* of the data bytes that arrive
recv_chunk_data(chunk_hdr_buf, max_data_size, computed_crc) ==
    LET chunk_hdr == protocol_deserialize_chunk_header(chunk_hdr_buf)
    IN  IF chunk_hdr.chunk_size > max_data_size
        THEN [rc |-> FT_ERR_PROTOCOL, chunk_hdr |-> chunk_hdr, max_data_size |-> max_data_size,
              data_read |-> 0]
        ELSE [rc |-> IF computed_crc /= chunk_hdr.chunk_crc32 THEN FT_ERR_CHECKSUM ELSE FT_SUCCESS,
              chunk_hdr |-> chunk_hdr, max_data_size |-> max_data_size,
              data_read |-> chunk_hdr.chunk_size]

\* the sending function serializes the structure
Codec_Send ==
    /\ codec_pc = "value" /\ codec_kind /= "decoded_header"
    /\ \E b \in StackBytes :
         codec_wire' =
            CASE codec_kind = "header" -> protocol_serialize_header(codec_value)
              [] codec_kind = "file_info" ->
                    protocol_serialize_file_info(codec_value, Filled(FT_FILE_INFO_SIZE, b))
              [] codec_kind = "chunk_header" -> protocol_serialize_chunk_header(codec_value)
              [] codec_kind = "peer_chunk" -> protocol_serialize_chunk_header(codec_value)
              [] codec_kind = "chunk_ack" ->
                    send_chunk_ack_bytes(codec_value.chunk_id, codec_value.status)
              [] codec_kind = "error" ->
                    send_error_bytes(codec_value.error_code, codec_value.chunk_id,
                                     codec_value.message)
    /\ codec_pc' = "wire"
    /\ UNCHANGED <<codec_kind, codec_value, codec_result, transfer_vars>>

\* the low byte of payload_size changes in transit
Codec_AlterPayloadSize ==
    /\ codec_pc = "wire" /\ codec_kind = "header"
    /\ codec_wire' = [codec_wire EXCEPT ![24] = (@ + 1) % 256]
    /\ codec_pc' = "altered"
    /\ UNCHANGED <<codec_kind, codec_value, codec_result, transfer_vars>>

\* recv_message reads the header
Codec_RecvMessage ==
    /\ codec_pc \in {"wire", "altered"} /\ codec_kind = "header"
    /\ \E max_payload_size \in {SIZEOF_HandshakePayload, ACK_BUF_SIZE, FT_FILE_INFO_SIZE} :
         codec_result' = recv_message_header(codec_wire, max_payload_size)
    /\ codec_pc' = "received"
    /\ UNCHANGED <<codec_kind, codec_value, codec_wire, transfer_vars>>

\* recv_chunk reads the header
Codec_RecvChunk ==
    /\ codec_pc \in {"wire", "altered"} /\ codec_kind = "header"
    /\ codec_result' = recv_chunk_header(codec_wire)
    /\ codec_pc' = "received"
    /\ UNCHANGED <<codec_kind, codec_value, codec_wire, transfer_vars>>

\* recv_file_info, recv_chunk or recv_chunk_ack decodes the payload structure
\* into the caller's structure
Codec_RecvPayload ==
    /\ codec_pc = "wire" /\ codec_kind \in {"file_info", "chunk_header", "chunk_ack", "error"}
    /\ \E b \in StackBytes :
         codec_result' =
            CASE codec_kind = "file_info" ->
                    protocol_deserialize_file_info(codec_wire,
                        [reserved |-> Filled(FILE_INFO_RESERVED, b)])
              [] codec_kind = "chunk_header" -> protocol_deserialize_chunk_header(codec_wire)
              [] codec_kind = "chunk_ack" ->
                    recv_chunk_ack_value(codec_wire, [reserved |-> Filled(CHUNK_ACK_RESERVED, b)])
              [] codec_kind = "error" -> recv_error_value(codec_wire)
    /\ codec_pc' = "received"
    /\ UNCHANGED <<codec_kind, codec_value, codec_wire, transfer_vars>>

\* recv_chunk reads the chunk header and the data behind it; max_data_size
\* is the chunk_size FILE_INFO announced
Codec_RecvChunkData ==
    /\ codec_pc = "wire" /\ codec_kind = "peer_chunk"
    /\ \E max_data_size \in {ChunkSize, FT_DEFAULT_CHUNK_SIZE}, computed_crc \in {<<0, 0>>, <<53931, 48333>>} :
         codec_result' = recv_chunk_data(codec_wire, max_data_size, computed_crc)
    /\ codec_pc' = "received"
    /\ UNCHANGED <<codec_kind, codec_value, codec_wire, transfer_vars>>

\* protocol_validate_header on a deserialized header
Codec_Validate ==
    /\ codec_pc = "value" /\ codec_kind = "decoded_header"
    /\ codec_result' = [rc |-> protocol_validate_header(codec_value)]
    /\ codec_pc' = "received"
    /\ UNCHANGED <<codec_kind, codec_value, codec_wire, transfer_vars>>

NextCodec ==
    \/ Codec_Send
    \/ Codec_Validate
    \/ Codec_AlterPayloadSize
    \/ Codec_RecvMessage
    \/ Codec_RecvChunk
    \/ Codec_RecvPayload
    \/ Codec_RecvChunkData

SpecCodec == InitCodec /\ [][NextCodec]_vars

(***************************************************************************)
(* Properties.                                                             *)
(***************************************************************************)
AllChunkIds == 0..(file_info.total_chunks - 1)

\* C1: whenever receive_file has returned success and published the final
\* file, that file is byte for byte the sender's source file and its length
\* is FileInfo.file_size, whatever the interleaving of sends, retry acks and
\* retransmissions was.
C1_PublishedEqualsSource ==
    rpc = "done" =>
        /\ final_exists
        /\ final_file = source
        /\ Len(final_file) = file_info.file_size

\* C2: the final path exists only if every chunk id 0..total_chunks-1 was
\* received with a matching CRC and written to the temp file; until then the
\* data is only under the temp path.
C2_FinalOnlyAfterAllChunks ==
    /\ final_exists => AllChunkIds \subseteq written_ids
    /\ ~(AllChunkIds \subseteq written_ids) => ~final_exists

\* C3: whenever receive_file returns failure after the temp sink was opened,
\* the temp path no longer exists.
C3_TempDeletedOnFailure ==
    (rpc = "failed" /\ temp_opened) => ~temp_exists

\* a step in which the sender puts a CHUNK_DATA frame, whole or in part, on the wire
ChunkTransmitted == Len(c2s') = Len(c2s) + 1 /\ c2s'[Len(c2s')].msg_type = MSG_CHUNK_DATA
TransmittedChunk == c2s'[Len(c2s')].body

\* C4: whenever the sender transmits CHUNK_DATA with chunk_id k it has
\* accepted exactly k status-0 acknowledgements; the ids on the wire go
\* 0, 1, ..., total_chunks-1, repeating only the current one, never skipping
\* and never going back.
C4_ChunkIdEqualsAcked ==
    [][ChunkTransmitted =>
          /\ TransmittedChunk.chunk_id = acks_ok_seen
          /\ TransmittedChunk.chunk_id = sent_chunks
          /\ TransmittedChunk.chunk_id \in {last_sent, last_sent + 1}
          /\ TransmittedChunk.chunk_id < SenderInfo.total_chunks]_vars

\* a retransmission of chunk 1 after chunk 0 was acknowledged
C4_Witness == last_sent = 1 /\ attempts = 2 /\ acks_ok_seen = 1 /\ spc = "recv_ack"

\* C5: the sender never transmits CHUNK_DATA for chunk n+1 before the
\* receiver has acknowledged chunk n with CHUNK_ACK{chunk_id = n, status = 0}.
C5_LockStep == last_sent > 0 => (last_sent - 1) \in ok_acked

SenderStepped == s_vars' /= s_vars

\* the sender is about to receive a well-formed CHUNK_ACK with status 0
OkAckAtHead ==
    /\ s2c /= <<>>
    /\ protocol_validate_header(Head(s2c)) = FT_SUCCESS
    /\ Head(s2c).msg_type = MSG_CHUNK_ACK
    /\ Head(s2c).body.status = 0

\* C6: at most FT_MAX_RETRIES send attempts per chunk; the retry counter
\* starts at 0 for each chunk, goes up by one on a failed send, a failed ack
\* receive and an ack with status /= 0; the transfer fails as soon as it
\* reaches FT_MAX_RETRIES; the next chunk is begun only after a status-0 ack.
C6_BoundedRetries ==
    [][/\ attempts' <= FT_MAX_RETRIES
       /\ (spc = "read" /\ spc' = "send") => (retry_count' = 0 /\ attempts' = 0)
       /\ (spc = "send" /\ SenderStepped /\ spc' /= "recv_ack") => retry_count' = retry_count + 1
       /\ (spc = "send" /\ spc' = "recv_ack") => retry_count' = retry_count
       /\ (spc = "recv_ack" /\ SenderStepped) =>
             IF OkAckAtHead
             THEN chunk_id' = chunk_id + 1 /\ retry_count' = retry_count /\ spc' \in {"read", "done"}
             ELSE chunk_id' = chunk_id /\ retry_count' = retry_count + 1
       /\ (retry_count' = retry_count + 1) =>
             spc' = (IF retry_count' >= FT_MAX_RETRIES THEN "failed" ELSE "send")
       /\ chunk_id' /= chunk_id => spc = "recv_ack"]_vars

\* the transfer has failed on the third attempt of a chunk
C6_Witness == spc = "failed" /\ retry_count = FT_MAX_RETRIES /\ attempts = FT_MAX_RETRIES

RECURSIVE SumUpTo(_, _)
SumUpTo(f, n) == IF n < 0 THEN 0 ELSE f[n] + SumUpTo(f, n - 1)

\* the number of transmissions that arrived with a data CRC mismatch
TotalCorrupt == SumUpTo(corrupt_of, MaxFileSize)

BothTerminated == SenderTerminated /\ ReceiverTerminated

TransferSucceeded ==
    /\ spc = "done" /\ rpc = "done"
    /\ final_exists /\ final_file = source /\ ~temp_exists

\* a step in which recv_chunk finds a CRC mismatch in the data of chunk k
CrcFaultOn(k) == corrupt_of'[k] = corrupt_of[k] + 1

\* C7: when exactly one transmission of a chunk arrives with a CRC mismatch
\* and there is no other fault, the receiver answers CHUNK_ACK{status = 1}
\* for that chunk, the sender sends the chunk again with the same chunk_id,
\* offset and data, and both sides end successfully with the destination
\* file equal to the source.
C7_SingleCrcFaultRecovers ==
    /\ [][\A k \in 0..MaxFileSize : CrcFaultOn(k) =>
             /\ s2c' = Append(s2c, ChunkAckFrame(k, 1, r_sequence_num))
             /\ received_chunks' = received_chunks /\ temp_file' = temp_file]_vars
    /\ [][ChunkTransmitted =>
             /\ TransmittedChunk.chunk_id = chunk_id
             /\ TransmittedChunk.chunk_offset = chunk_id * ChunkSize
             /\ TransmittedChunk.data = file_read_chunk(source, chunk_id * ChunkSize, ChunkSize)]_vars
    /\ <>BothTerminated
    /\ [](BothTerminated /\ TotalCorrupt = 1 /\ file_check_disk_space(avail, Len(source))
            => TransferSucceeded)

\* a three-chunk transfer that succeeded although one transmission was corrupted
C7_Witness ==
    /\ TransferSucceeded /\ TotalCorrupt = 1 /\ ~other_fault
    /\ Len(source) = MaxFileSize /\ s_sequence_num > 3 + SenderInfo.total_chunks

\* every transmission of chunk k so far has arrived with a CRC mismatch
EveryTransmissionCorrupt(k) == sent_of[k] > 0 /\ corrupt_of[k] = sent_of[k]

BothFailedNothingPublished ==
    /\ spc = "failed" /\ rpc = "failed"
    /\ ~temp_exists /\ ~final_exists

\* C8: if every transmission of some chunk arrives with a CRC mismatch, the
\* sender stops after the bounded retries of that chunk and ends failed, the
\* receiver fails too, deletes the temp file and never creates the final file.
C8_RetryExhaustion ==
    (BothTerminated /\ \E k \in 0..MaxFileSize : EveryTransmissionCorrupt(k))
        => BothFailedNothingPublished

\* a name the receiver has to refuse: it contains "..", or begins with a
\* path separator or with a drive prefix (a letter followed by ':')
BadName(name) ==
    \/ HasDotDot(name)
    \/ CharAt(name, 0) = "/" \/ CharAt(name, 0) = "\\"
    \/ (CharAt(name, 0) \in Lower \cup Upper /\ CharAt(name, 1) = ":")

\* C9: for every FILE_INFO whose filename contains "..", or begins with
\* '/' or '\', or begins with a drive prefix, the receiver sends
\* ERROR{INVALID_ARG} and no FILE_ACK, fails, and has created neither a temp
\* file nor a final file.
C9_BadFilenameRejected ==
    [][(rpc = "prepare" /\ rpc' /= "prepare" /\ BadName(file_info.filename)) =>
          /\ rpc' = "failed"
          /\ ~temp_opened' /\ ~temp_exists' /\ ~final_exists'
          /\ \/ s2c' = s2c
             \/ s2c' = Append(s2c, ErrorFrame(FT_ERR_INVALID_ARG, 0, r_sequence_num))]_vars

SafeChars == Lower \cup Upper \cup Digit \cup {".", "_", "-"}

\* a name that, appended to the output directory, names an entry directly inside it
NameIsSafe(name) ==
    /\ Len(name) > 0
    /\ \A i \in 1..Len(name) : name[i] \in SafeChars
    /\ name /= <<".">> /\ name /= <<".", ".">>
    /\ ~HasDotDot(name)

\* C10: for every input, file_sanitize_filename either returns INVALID_ARG
\* or produces a non-empty name over [A-Za-z0-9._-] that has no path
\* separator, is neither "." nor ".." and contains no "..", so that the temp
\* path and the final path name entries directly inside the output directory.
C10_SanitizedNameSafe ==
    rpc \notin {"handshake", "file_info", "prepare"} =>
        LET san == file_sanitize_filename(file_info.filename, FT_MAX_FILENAME_LEN)
        IN  \/ san.rc = FT_ERR_INVALID_ARG
            \/ /\ san.rc = FT_SUCCESS
               /\ sanitized_name = san.name
               /\ NameIsSafe(san.name)
               /\ RenamePossible(san.name)

\* a step in which the receiver accepts a chunk: writes it, counts it
ChunkAccepted == rpc = "chunks" /\ received_chunks' = received_chunks + 1
AcceptedChunk == Head(c2s).body

\* C12: the receiver writes and OK-acknowledges a CHUNK_DATA only if its
\* chunk_id equals the number of chunks accepted so far; a chunk with any
\* other id is not written, not counted, and fails the transfer.
C12_AscendingIdsOnly ==
    [][/\ ChunkAccepted => AcceptedChunk.chunk_id = received_chunks
       /\ (written_ids' /= written_ids \/ ok_acked' /= ok_acked)
             => AcceptedChunk.chunk_id = received_chunks]_vars

EmptySource == Len(source) = 0

\* a step in which the sender puts a whole frame of the given type on the wire
SenderPuts(msg_type) == Len(c2s') = Len(c2s) + 1 /\ c2s'[Len(c2s')].msg_type = msg_type

\* C13: for a source of size 0 the sender computes total_chunks = 0, sends
\* FILE_INFO{file_size = 0, total_chunks = 0}, sends no CHUNK_DATA, and
\* reports success right after FILE_ACK; the receiver skips the chunk loop
\* and finalizes an empty file under the final name.
C13_EmptyFile ==
    /\ [](EmptySource => (SenderInfo.total_chunks = 0 /\ last_sent = -1
                          /\ \A k \in 0..MaxFileSize : sent_of[k] = 0))
    /\ [][(EmptySource /\ SenderPuts(MSG_FILE_INFO)) =>
             (c2s'[Len(c2s')].body.file_size = 0 /\ c2s'[Len(c2s')].body.total_chunks = 0)]_vars
    /\ [][EmptySource => ~SenderPuts(MSG_CHUNK_DATA)]_vars
    /\ [][(EmptySource /\ spc = "file_ack_recv" /\ spc' /= spc) => spc' = "done"]_vars
    /\ [][(EmptySource /\ rpc = "prepare" /\ rpc' /= rpc) => rpc' = "finalize"]_vars
    /\ EmptySource ~> (spc = "done" /\ rpc = "done" /\ final_exists /\ final_file = <<>>
                       /\ ~temp_exists)

\* an empty file has been transferred and published
C13_Witness ==
    /\ EmptySource /\ spc = "done" /\ rpc = "done"
    /\ final_exists /\ final_file = <<>> /\ s_sequence_num = 3 /\ r_sequence_num = 3

\* the sizes the sender asks file_read_chunk for, summed over all chunks
SumOfChunkSizes ==
    SumUpTo([k \in 0..(SenderInfo.total_chunks - 1) |-> bytes_to_read(k, SenderInfo)],
            SenderInfo.total_chunks - 1)

\* C14: every CHUNK_DATA for chunk k carries chunk_offset = k * chunk_size
\* and chunk_size = min(FileInfo.chunk_size, file_size - chunk_offset); every
\* chunk but the last is full-size, the last has a size in [1, chunk_size],
\* and the sizes of chunks 0..total_chunks-1 sum to file_size.
C14_ChunkGeometry ==
    /\ [](SumOfChunkSizes = SenderInfo.file_size)
    /\ [](spc \in {"send", "recv_ack"} =>
             Len(chunk_buffer) = bytes_to_read(chunk_id, SenderInfo))
    /\ [][ChunkTransmitted =>
             LET b == TransmittedChunk
                 info == SenderInfo
             IN  /\ b.chunk_offset = b.chunk_id * info.chunk_size
                 /\ b.chunk_size = Min(info.chunk_size, info.file_size - b.chunk_offset)
                 /\ b.chunk_size = Len(b.data)
                 /\ b.chunk_id < info.total_chunks - 1 => b.chunk_size = info.chunk_size
                 /\ b.chunk_id = info.total_chunks - 1 => b.chunk_size \in 1..info.chunk_size]_vars

\* a step in which the receiver puts a frame of the given type on the wire
ReceiverPuts(msg_type) == Len(s2c') > Len(s2c) /\ s2c'[Len(s2c) + 1].msg_type = msg_type

\* the step of receive_file that sanitizes the name, checks the disk and opens the temp file
PrepareStep == rpc = "prepare" /\ rpc' /= rpc

SpaceTooSmall == avail < file_info.file_size

ConsecutiveOnWire(stream) ==
    \A i \in 1..(Len(stream) - 1) :
        (/\ stream[i].magic = FT_MAGIC_NUMBER /\ stream[i + 1].magic = FT_MAGIC_NUMBER
         /\ stream[i].sequence_num >= 2)
            => stream[i + 1].sequence_num = stream[i].sequence_num + 1

\* the first message after the handshake carries 2
FirstCarriesTwo(stream, msg_type) ==
    \A i \in 1..Len(stream) :
        (stream[i].magic = FT_MAGIC_NUMBER /\ stream[i].msg_type = msg_type)
            => stream[i].sequence_num = 2

\* C20: on each side the messages put on the wire after the handshake carry
\* 2, 3, 4, ... in order, each exactly the previous number plus 1,
\* retransmissions and retry acks included, also after a failed send attempt.
C20_SequenceNumbers ==
    /\ FirstCarriesTwo(c2s, MSG_FILE_INFO) /\ FirstCarriesTwo(s2c, MSG_FILE_ACK)
    /\ ConsecutiveOnWire(c2s) /\ ConsecutiveOnWire(s2c)

\* the sender waits for the answer to FILE_INFO and an ERROR message is next in the stream
ErrorAnswersFileInfo ==
    /\ spc = "file_ack_recv" /\ s2c /= <<>>
    /\ protocol_validate_header(Head(s2c)) = FT_SUCCESS
    /\ Head(s2c).msg_type = MSG_ERROR

\* C18: when the receiver answers FILE_INFO with an ERROR message carrying
\* error code e, the sender recognizes it as MSG_ERROR, fails the transfer
\* with the error kind that corresponds to e, and sends no CHUNK_DATA.
C18_ErrorAnswerTranslated ==
    [][(ErrorAnswersFileInfo /\ spc' /= spc) =>
          /\ spc' = "failed"
          /\ s_error' = Head(s2c).body.error_code
          /\ s2c' = Tail(s2c)
          /\ last_sent' = -1]_vars

\* the payload bytes a whole message of each type consists of: what the
\* sending function hands to socket_send_all after the header
BodySize(frame) ==
    CASE frame.msg_type = MSG_HANDSHAKE_REQ -> SIZEOF_HandshakePayload
      [] frame.msg_type = MSG_HANDSHAKE_ACK -> SIZEOF_HandshakePayload
      [] frame.msg_type = MSG_FILE_INFO -> FT_FILE_INFO_SIZE
      [] frame.msg_type = MSG_FILE_ACK -> SIZEOF_FileAck
      [] frame.msg_type = MSG_CHUNK_DATA -> FT_CHUNK_HEADER_SIZE + Len(frame.body.data)
      [] frame.msg_type = MSG_CHUNK_ACK -> SIZEOF_ChunkAck
      [] frame.msg_type = MSG_ERROR -> SIZEOF_ErrorMessage

\* the header of stream[i] is followed by exactly payload_size payload bytes
\* before the next header
PayloadSizeExact(stream) ==
    \A i \in 1..Len(stream) :
        stream[i].magic = FT_MAGIC_NUMBER =>
            /\ stream[i].payload_size = BodySize(stream[i])
            /\ stream[i].msg_type = MSG_CHUNK_DATA =>
                  stream[i].payload_size = FT_CHUNK_HEADER_SIZE + stream[i].body.chunk_size
            /\ i < Len(stream) => ~IsTorn(stream[i])

\* C17: every message put on the wire has a header payload_size equal to
\* the exact number of payload bytes written after that header; for
\* CHUNK_DATA, payload_size = 24 + chunk_size.
C17_PayloadSizeExact == PayloadSizeExact(c2s) /\ PayloadSizeExact(s2c)

\* the checksum field of a 32-byte header differs from the CRC-32 of its first 24 bytes
HeaderChecksumMismatch(header_buf) ==
    FromBE32(SubSeq(header_buf, 25, 28)) /= crc32_compute(SubSeq(header_buf, 1, 24))

HeaderReceived == codec_pc = "received" /\ codec_kind = "header"

\* C11: a received header whose checksum field differs from the CRC-32 of its
\* first 24 bytes is rejected by recv_message and by recv_chunk, and no
\* payload byte is read after it
C11_BadHeaderChecksumRejected ==
    (HeaderReceived /\ HeaderChecksumMismatch(codec_wire))
        => (codec_result.rc /= FT_SUCCESS /\ codec_result.payload_read = 0)

HeaderSerialized == codec_pc = "wire" /\ codec_kind = "header"

\* the CRC-32 of B[0..24) is the big-endian u32 at B[24..28)
ChecksumFieldIsCrc(header_buf) ==
    crc32_compute(SubSeq(header_buf, 1, 24)) = FromBE32(SubSeq(header_buf, 25, 28))

\* C15 as stated: for every header h and B = protocol_serialize_header(h),
\* protocol_deserialize_header(B) equals h in every field and the CRC-32 of
\* B[0..24) is the value stored at B[24..28)
C15_HeaderRoundTripEveryField ==
    HeaderSerialized
        => /\ protocol_deserialize_header(codec_wire) = codec_value
           /\ ChecksumFieldIsCrc(codec_wire)

\* C15: for every header h and B = protocol_serialize_header(h), the header
\* deserialized from B equals h in every field other than checksum, its
\* checksum is the CRC-32 of B[0..24), and that CRC-32 is the big-endian
\* value stored at B[24..28)
C15_HeaderRoundTrip ==
    HeaderSerialized
        => LET decoded == protocol_deserialize_header(codec_wire)
           IN  /\ decoded = [codec_value EXCEPT !.checksum = decoded.checksum]
               /\ decoded.checksum = crc32_compute(SubSeq(codec_wire, 1, 24))
               /\ ChecksumFieldIsCrc(codec_wire)

C15_Witness ==
    /\ HeaderSerialized
    /\ codec_value.msg_type = MSG_CHUNK_DATA /\ codec_value.sequence_num = 65537
    /\ codec_value.payload_size = 26 /\ codec_value.flags = 258
    /\ codec_value.checksum = <<1, 2>> /\ codec_value.reserved = <<0, 7>>
    /\ protocol_deserialize_header(codec_wire).checksum /= codec_value.checksum

PayloadReceived == codec_pc = "received" /\ codec_kind \in {"file_info", "chunk_header", "chunk_ack"}

\* C16: for every FileInfo, ChunkHeader and ChunkAck value, what the receiving
\* side deserializes from the serialized bytes equals the value in every
\* field, the whole filename field and the reserved bytes included
C16_PayloadRoundTrip == PayloadReceived => codec_result = codec_value

\* the step of send_file in which file_read_chunk returns (fseeko did not fail)
ReadReturned == spc = "read" /\ spc' /= "read" /\ s_error' /= FT_ERR_FILE_SEEK

\* the bytes fread finds at the chunk's offset are fewer than the size computed for the chunk
ShortRead ==
    Len(file_read_chunk(source_now', chunk_offset_of(chunk_id, SenderInfo),
                        bytes_to_read(chunk_id, SenderInfo)))
        < bytes_to_read(chunk_id, SenderInfo)

\* C25: when reading a chunk returns fewer bytes than the size computed for
\* it, the sender fails the transfer with FILE_READ, and no CHUNK_DATA with
\* fewer bytes than the computed size is put on the wire
C25_ShortReadFails ==
    /\ [][(ReadReturned /\ ShortRead) => (spc' = "failed" /\ s_error' = FT_ERR_FILE_READ)]_vars
    /\ [][ChunkTransmitted =>
             TransmittedChunk.chunk_size
                 = bytes_to_read(TransmittedChunk.chunk_id, SenderInfo)]_vars

\* C21: the sender puts FILE_INFO on the wire only after it accepted a
\* HANDSHAKE_ACK, puts CHUNK_DATA on the wire only after it received FILE_ACK,
\* and reports success only after it received, for every chunk
\* 0..total_chunks-1, an acknowledgement of that chunk with status 0
C21_SenderPhases ==
    /\ [][SenderPuts(MSG_FILE_INFO) => <<MSG_HANDSHAKE_ACK, 0>> \in s_seen]_vars
    /\ [][SenderPuts(MSG_CHUNK_DATA) => <<MSG_FILE_ACK, 0>> \in s_seen]_vars
    /\ [](spc = "done" =>
             \A k \in 0..(SenderInfo.total_chunks - 1) : <<MSG_CHUNK_ACK, k>> \in s_seen)

\* the receiver takes an intact CHUNK_DATA off the stream whose data bytes
\* were altered in transit, so that their CRC-32 differs from chunk_crc32
CrcMismatchArrives ==
    /\ rpc = "chunks" /\ c2s /= <<>>
    /\ corrupt_of' /= corrupt_of

\* C22: when a CHUNK_DATA arrives whose data CRC-32 differs from chunk_crc32,
\* the receiver gets CHECKSUM from recv_chunk, answers with
\* CHUNK_ACK{chunk_id of the frame, status 1}, writes nothing to the temp
\* file, leaves received_chunks as it is and stays in the chunk loop
C22_CrcMismatchRetryAck ==
    [][CrcMismatchArrives =>
          /\ r_error' = FT_ERR_CHECKSUM
          /\ \/ s2c' = Append(s2c, ChunkAckFrame(Head(c2s).body.chunk_id, 1, r_sequence_num))
             \/ s2c' = s2c /\ other_fault'
          /\ r_sequence_num' = r_sequence_num + 1
          /\ temp_file' = temp_file /\ written_ids' = written_ids
          /\ received_chunks' = received_chunks
          /\ rpc' = "chunks" /\ file_open' = file_open /\ temp_exists' = temp_exists]_vars

\* the retry acknowledgement for chunk 1 is on the wire, chunk 0 being written
C22_Witness ==
    /\ rpc = "chunks" /\ r_error = FT_ERR_CHECKSUM /\ corrupt_of[1] = 1
    /\ received_chunks = 1 /\ temp_file = <<1, 2>>
    /\ s2c /= <<>> /\ s2c[Len(s2c)] = ChunkAckFrame(1, 1, r_sequence_num - 1)

\* recv_chunk fails in the chunk loop with an error other than CHECKSUM:
\* nothing or not all of a message arrives, the header is invalid, the message
\* is not CHUNK_DATA, or chunk_size is larger than the buffer
RecvChunkFails ==
    /\ rpc = "chunks" /\ rpc' = "failed"
    /\ \/ r_error' \in {FT_ERR_RECV, FT_ERR_PROTOCOL}
       \/ r_error' = FT_ERR_TIMEOUT /\ (c2s = <<>> \/ (Len(c2s) = 1 /\ IsTorn(Head(c2s))))

\* C23: when recv_chunk fails in the receiver's chunk loop with an error
\* other than CHECKSUM, the receiver sends an ERROR message (send_error with
\* the next sequence number) before it fails the transfer
C23_ErrorSentOnRecvFailure ==
    [][RecvChunkFails =>
          /\ r_sequence_num' = r_sequence_num + 1
          /\ \/ ReceiverPuts(MSG_ERROR)
             \/ s2c' = s2c /\ other_fault']_vars

\* the sender is waiting for the acknowledgement of a chunk and what it gets
\* is not a timeout and not an acknowledgement: the peer has closed the
\* connection, or a message with an invalid header, an ERROR or another
\* message that is not CHUNK_ACK arrives
NonTransientAckFault ==
    /\ spc = "recv_ack" /\ spc' /= "recv_ack"
    /\ \/ s2c = <<>> /\ ReceiverTerminated
       \/ s2c /= <<>> /\ protocol_validate_header(Head(s2c)) /= FT_SUCCESS
       \/ s2c /= <<>> /\ Head(s2c).msg_type /= MSG_CHUNK_ACK

\* C24: a fault other than a timeout or an acknowledgement with status /= 0,
\* observed while the sender waits for the acknowledgement of a chunk,
\* terminates the transfer at once: the chunk is not transmitted again
C24_OnlyTransientRetried ==
    [][NonTransientAckFault => spc' = "failed"]_vars

\* a step in which the receiver puts CHUNK_ACK{status = 0} on the wire
OkAckSent == ReceiverPuts(MSG_CHUNK_ACK) /\ s2c'[Len(s2c')].body.status = 0

\* file_write_chunk fails in the chunk loop
WriteFails ==
    /\ rpc = "chunks" /\ rpc' = "failed"
    /\ r_error' \in {FT_ERR_FILE_WRITE, FT_ERR_DISK_FULL}

Received(stream) == stream /= <<>> /\ recv_message(stream, SIZEOF_HandshakePayload).rc = FT_SUCCESS

\* a message of the given type whose payload carries protocol version 0x01
HasVersionOne(m, msg_type) ==
    m.msg_type = msg_type /\ m.payload_size > 0 /\ m.body.protocol_version = FT_PROTOCOL_VERSION

\* C27: the receiver answers the first message it receives with
\* HANDSHAKE_ACK, numbered the request's sequence number plus 1, if and only
\* if that message is a HANDSHAKE_REQ whose payload version is 0x01;
\* otherwise it sends nothing and fails with PROTOCOL (wrong type) or VERSION
\* (wrong version).  The sender fails with PROTOCOL when the reply is not
\* HANDSHAKE_ACK and with VERSION when the reply's payload version is not 0x01
C27_Handshake ==
    /\ [][(rpc = "handshake" /\ rpc' /= "handshake" /\ Received(c2s)) =>
             LET m == Head(c2s)
             IN  IF HasVersionOne(m, MSG_HANDSHAKE_REQ)
                 THEN \/ s2c' = Append(s2c, Frame(MSG_HANDSHAKE_ACK, m.sequence_num + 1,
                                                  SIZEOF_HandshakePayload,
                                                  [protocol_version |-> FT_PROTOCOL_VERSION]))
                      \/ s2c' = s2c /\ other_fault' /\ rpc' = "failed"
                 ELSE /\ s2c' = s2c /\ rpc' = "failed"
                      /\ r_error' = IF m.msg_type /= MSG_HANDSHAKE_REQ
                                    THEN FT_ERR_PROTOCOL ELSE FT_ERR_VERSION]_vars
    /\ [][(spc = "handshake_recv" /\ spc' /= "handshake_recv" /\ Received(s2c)) =>
             LET m == Head(s2c)
             IN  IF HasVersionOne(m, MSG_HANDSHAKE_ACK)
                 THEN spc' = "file_info_send"
                 ELSE /\ spc' = "failed"
                      /\ s_error' = IF m.msg_type /= MSG_HANDSHAKE_ACK
                                    THEN FT_ERR_PROTOCOL ELSE FT_ERR_VERSION]_vars

HeaderValidated == codec_pc = "received" /\ codec_kind = "decoded_header"

\* msg_type is one of 0x01..0x09 or 0xFF
KnownMsgType(msg_type) == msg_type \in (1..9) \cup {255}

MessageHeaderReceived == HeaderReceived /\ "max_payload_size" \in DOMAIN codec_result

\* C29: recv_message never reads more payload bytes than max_payload: for a
\* valid header with payload_size above max_payload it fails with PROTOCOL
\* and reads no payload byte; otherwise it reads exactly payload_size bytes
C29_PayloadWithinMax ==
    MessageHeaderReceived =>
        LET r == codec_result
            valid == protocol_validate_header(r.header) = FT_SUCCESS
        IN  /\ r.payload_read <= r.max_payload_size
            /\ (valid /\ r.header.payload_size > r.max_payload_size)
                   => (r.rc = FT_ERR_PROTOCOL /\ r.payload_read = 0)
            /\ (valid /\ r.header.payload_size <= r.max_payload_size)
                   => (r.rc = FT_SUCCESS /\ r.payload_read = r.header.payload_size)

\* a header announcing 26 payload bytes was refused by a caller with a 16-byte buffer
C29_Witness ==
    /\ MessageHeaderReceived
    /\ codec_result.header.payload_size = 26 /\ codec_result.max_payload_size = ACK_BUF_SIZE
    /\ codec_result.rc = FT_ERR_PROTOCOL /\ codec_result.payload_read = 0

(***************************************************************************)
(* socket_connect_with_retry: the host is resolved, then connect() is      *)
(* tried up to max_retries times, with a sleep between two attempts.       *)
(***************************************************************************)

\* a doubling without the cap
next_delay_uncapped(delay) == delay * 2

\* delay_ms after a sleep: doubled, capped at FT_BACKOFF_MAX_MS
next_delay(delay) ==
    IF delay * 2 < FT_BACKOFF_MAX_MS THEN delay * 2 ELSE FT_BACKOFF_MAX_MS

InitConnect ==
    /\ source = <<>> /\ filename = <<"a">> /\ avail = 0
    /\ InitCommon
    /\ CodecOff
    /\ ServerOff
    /\ conn_pc = "resolve" /\ max_retries \in 0..MaxAttempts
    /\ attempt = 0 /\ delay_ms = 0
    /\ conn_error = FT_SUCCESS /\ conn_resolved = FALSE
    /\ conn_attempts = 0 /\ conn_failed = 0 /\ conn_slept = <<>>

conn_unchanged == <<source, filename, avail, codec_vars, c2s, s2c, s_vars, r_vars, fs_vars,
                    ok_acked, corrupt_of, other_fault, max_retries, server_vars>>

\* inet_addr, else gethostbyname; then delay_ms = 1000 and attempt = 1
Conn_Resolve ==
    /\ conn_pc = "resolve"
    /\ \E resolved \in BOOLEAN :
          IF resolved
          THEN /\ conn_resolved' = TRUE
               /\ delay_ms' = BACKOFF_INITIAL_MS /\ attempt' = 1
               /\ conn_pc' = "loop"
               /\ UNCHANGED conn_error
          ELSE /\ conn_error' = FT_ERR_CONNECT
               /\ conn_pc' = "failed"
               /\ UNCHANGED <<conn_resolved, delay_ms, attempt>>
    /\ UNCHANGED <<conn_attempts, conn_failed, conn_slept, conn_unchanged>>

\* the loop test attempt <= max_retries; behind the loop the call fails
Conn_LoopTest ==
    /\ conn_pc = "loop"
    /\ IF attempt <= max_retries
       THEN conn_pc' = "connect" /\ UNCHANGED conn_error
       ELSE conn_pc' = "failed" /\ conn_error' = FT_ERR_CONNECT
    /\ UNCHANGED <<attempt, delay_ms, conn_resolved, conn_attempts, conn_failed, conn_slept,
                   conn_unchanged>>

\* one connect() call
Conn_Connect ==
    /\ conn_pc = "connect"
    /\ conn_attempts' = conn_attempts + 1
    /\ \E connected \in BOOLEAN :
          IF connected
          THEN /\ conn_error' = FT_SUCCESS
               /\ conn_pc' = "connected"
               /\ UNCHANGED <<attempt, conn_failed>>
          ELSE /\ conn_failed' = conn_failed + 1
               /\ IF attempt < max_retries
                  THEN conn_pc' = "sleep" /\ UNCHANGED attempt
                  ELSE conn_pc' = "loop" /\ attempt' = attempt + 1
               /\ UNCHANGED conn_error
    /\ UNCHANGED <<delay_ms, conn_resolved, conn_slept, conn_unchanged>>

\* platform_sleep_ms(delay_ms), the new delay_ms, attempt++
Conn_Sleep ==
    /\ conn_pc = "sleep"
    /\ conn_slept' = Append(conn_slept, delay_ms)
    /\ delay_ms' = next_delay(delay_ms)
    /\ attempt' = attempt + 1
    /\ conn_pc' = "loop"
    /\ UNCHANGED <<conn_error, conn_resolved, conn_attempts, conn_failed, conn_unchanged>>

NextConnect ==
    \/ Conn_Resolve
    \/ Conn_LoopTest
    \/ Conn_Connect
    \/ Conn_Sleep

SpecConnect == InitConnect /\ [][NextConnect]_vars

RECURSIVE Pow2(_)
Pow2(k) == IF k = 0 THEN 1 ELSE 2 * Pow2(k - 1)

\* the call has returned after the host was resolved
ConnectReturned == conn_pc \in {"connected", "failed"} /\ conn_resolved

\* C30: socket_connect_with_retry with max_attempts = n makes at most n
\* connect attempts, returns success at the first attempt that succeeds and
\* CONNECT after exactly n failed attempts; the sleep after the k-th failed
\* attempt, before attempt k + 1, is min(1000 * 2^(k-1), 16000) ms
C30_ConnectBackoff ==
    /\ [](/\ conn_attempts <= max_retries
          /\ (conn_pc = "connected")
                 => (conn_error = FT_SUCCESS /\ conn_failed = conn_attempts - 1)
          /\ (conn_pc = "failed" /\ conn_resolved)
                 => (/\ conn_error = -2
                     /\ conn_attempts = max_retries /\ conn_failed = max_retries)
          /\ \A k \in 1..Len(conn_slept) : conn_slept[k] = Min(1000 * Pow2(k - 1), 16000)
          /\ ConnectReturned => Len(conn_slept) = conn_failed - (IF conn_pc = "failed" /\ conn_failed > 0 THEN 1 ELSE 0))
    /\ [][/\ conn_attempts' = conn_attempts + 1 => Len(conn_slept) = conn_attempts
          /\ (conn_attempts' = conn_attempts + 1 /\ conn_failed' = conn_failed)
                 => conn_pc' = "connected"
          /\ conn_pc \in {"connected", "failed"} => conn_attempts' = conn_attempts]_vars

\* seven attempts have failed with sleeps of 1, 2, 4, 8, 16 and 16 seconds between them
C30_Witness ==
    /\ conn_pc = "failed" /\ conn_resolved /\ max_retries = 7
    /\ conn_failed = 7
    /\ conn_slept = <<1000, 2000, 4000, 8000, 16000, 16000>>

\* the receiver acts on the FILE_INFO it has received
FileInfoAnswered == rpc = "prepare" /\ rpc' /= "prepare"

\* the messages the receiver puts on the wire in a step
ReceiverSent == SubSeq(s2c', Len(s2c) + 1, Len(s2c'))

\* C31: in response to one FILE_INFO the receiver sends exactly one of
\* FILE_ACK or ERROR: FILE_ACK{status 0, error_code 0} only after the
\* sanitizing of the filename, the disk-space check and the opening of the
\* temp file have succeeded; ERROR and failure as soon as one of them fails,
\* the later steps not being performed.  A send that fails puts nothing on
\* the wire and ends the transfer
C31_OneAnswerToFileInfo ==
    [][FileInfoAnswered =>
          LET san == file_sanitize_filename(file_info.filename, 256)
              name_ok == san.rc = 0
              space_ok == avail >= file_info.file_size
          IN  /\ Len(ReceiverSent) <= 1
              /\ Len(ReceiverSent) = 0 => rpc' = "failed"
              /\ \A i \in 1..Len(ReceiverSent) :
                    \/ /\ ReceiverSent[i].msg_type = 4
                       /\ ReceiverSent[i].body = [status |-> 0, error_code |-> 0]
                       /\ name_ok /\ space_ok /\ temp_opened'
                    \/ /\ ReceiverSent[i].msg_type = 255
                       /\ rpc' = "failed"
              /\ (~name_ok \/ ~space_ok) => (rpc' = "failed" /\ ~temp_opened' /\ ~temp_exists')
              /\ rpc' /= "failed" => (Len(ReceiverSent) = 1 /\ ReceiverSent[1].msg_type = 4)]_vars

(***************************************************************************)
(* The server process: main (server_main.c) accepts a connection, runs     *)
(* receive_file on it, and leaves the accept loop.                         *)
(***************************************************************************)
srv_unchanged == <<source, filename, avail, codec_vars, connect_vars, c2s, s2c, s_vars, r_vars,
                   fs_vars, ok_acked, corrupt_of, other_fault>>

\* a receive_file that reports success whatever happened
receive_file_result_zero(pc) == 0

\* the value receive_file returns: result is -1 until file_finalize_write has succeeded
receive_file_result(pc) == IF pc = "done" THEN 0 ELSE -1

\* a server about to start, a client about to send a file of up to two chunks
InitServer ==
    /\ source \in {SourceOfSize(n) : n \in 0..(ChunkSize + 1)}
    /\ filename = <<"a", ".", "C">>
    /\ avail \in {0, MaxFileSize}
    /\ InitCommon
    /\ CodecOff
    /\ ConnectOff
    /\ srv_pc = "start" /\ exit_code = 1
    /\ srv_accepted = 0 /\ srv_transfers = 0 /\ accept_failures = 0

\* platform_init, the output directory, socket_create, socket_bind_and_listen:
\* all succeed, or one fails and main goes to cleanup with exit_code 1
Srv_Start ==
    /\ srv_pc = "start"
    /\ srv_pc' \in {"accept", "exited"}
    /\ UNCHANGED <<exit_code, srv_accepted, srv_transfers, accept_failures, srv_unchanged>>

\* socket_accept_connection: a client is there, or the call fails and the loop continues
Srv_Accept ==
    /\ srv_pc = "accept"
    /\ \/ /\ srv_accepted' = srv_accepted + 1
          /\ srv_transfers' = srv_transfers + 1
          /\ srv_pc' = "transfer"
          /\ UNCHANGED accept_failures
       \/ /\ accept_failures < MaxAcceptFailures
          /\ accept_failures' = accept_failures + 1
          /\ UNCHANGED <<srv_pc, srv_accepted, srv_transfers>>
    /\ UNCHANGED <<exit_code, srv_unchanged>>

\* receive_file has returned: exit_code, close_socket, break, cleanup, return
Srv_Exit ==
    /\ srv_pc = "transfer" /\ ReceiverTerminated
    /\ exit_code' = IF receive_file_result(rpc) = 0 THEN 0 ELSE exit_code
    /\ srv_pc' = "exited"
    /\ UNCHANGED <<srv_accepted, srv_transfers, accept_failures, srv_unchanged>>

\* the transfer on the accepted connection
Connected == srv_pc \in {"transfer", "exited"}

NextServer ==
    \/ Srv_Start
    \/ Srv_Accept
    \/ Srv_Exit
    \/ Connected /\ S_HandshakeSend
    \/ Connected /\ S_HandshakeRecv
    \/ Connected /\ S_SendFileInfo
    \/ Connected /\ S_RecvFileAck
    \/ Connected /\ S_ReadChunk
    \/ Connected /\ S_SendChunk
    \/ Connected /\ S_RecvChunkAck
    \/ srv_pc = "transfer" /\ R_Handshake
    \/ srv_pc = "transfer" /\ R_RecvFileInfo
    \/ srv_pc = "transfer" /\ R_Prepare
    \/ srv_pc = "transfer" /\ R_RecvChunk
    \/ srv_pc = "transfer" /\ R_Finalize

SpecServer == InitServer /\ [][NextServer]_vars

\* C32: a server process serves at most one client connection: after the
\* first accepted connection it runs exactly one transfer, accepts no other
\* connection and exits, with exit status 0 if and only if that transfer
\* succeeded and 1 otherwise
C32_OneTransferPerProcess ==
    /\ [](/\ srv_accepted <= 1 /\ srv_transfers = srv_accepted
          /\ exit_code \in {0, 1}
          /\ (srv_pc = "exited" /\ srv_accepted = 1)
                 => (exit_code = 0 <=> (rpc = "done" /\ final_exists))
          /\ srv_pc /= "exited" => exit_code = 1)
    /\ [][/\ srv_accepted = 1 => srv_accepted' = 1
          /\ (srv_pc = "transfer" /\ srv_pc' /= "transfer") => (ReceiverTerminated /\ srv_pc' = "exited")
          /\ srv_pc = "exited" => (srv_pc' = "exited" /\ exit_code' = exit_code /\ UNCHANGED r_vars)]_vars

\* after two failed accepts the one transfer has succeeded and the process has left with status 0
C32_Witness ==
    /\ srv_pc = "exited" /\ exit_code = 0 /\ srv_accepted = 1 /\ accept_failures = 2
    /\ rpc = "done" /\ final_exists /\ Len(final_file) > ChunkSize

\* C33: when every blocking socket or file operation returns (with success,
\* a timeout or an error) and the peer is this program, the sender and the
\* receiver both eventually terminate in Done or Failed: neither the
\* sender's retry loop nor the receiver's chunk loop runs forever
C33_BothTerminate == <>[](SenderTerminated /\ ReceiverTerminated)

\* the sender has used all its attempts on a chunk and the receiver, left
\* without data, has run into its receive timeout: both have ended failed
C33_Witness ==
    /\ spc = "failed" /\ rpc = "failed"
    /\ retry_count = 3 /\ r_error = FT_ERR_TIMEOUT /\ received_chunks > 0

ErrorReceived == codec_pc = "received" /\ codec_kind = "error"

\* C34: for every FTErrorCode e passed to send_error, the value the peer
\* obtains by reading the 8-bit error_code byte of the ERROR payload and
\* converting it back to FTErrorCode equals e
C34_ErrorCodeRoundTrip ==
    ErrorReceived => codec_result.error_code = codec_value.error_code

\* C35: in every state of the receiver that is not a failure, received_chunks
\* is the number of distinct chunk ids whose data has been written to the
\* temp file and is at most total_chunks; so the chunk loop has ended exactly
\* when all total_chunks distinct chunks have been written
C35_ReceivedCountsDistinctChunks ==
    rpc \in {"chunks", "finalize", "done"} =>
        /\ received_chunks = Cardinality(written_ids)
        /\ received_chunks <= file_info.total_chunks
        /\ rpc \in {"finalize", "done"} <=> written_ids = 0..(file_info.total_chunks - 1)

\* C36: agreement on the outcome: whenever send_file has returned success,
\* receive_file on the same connection ends in success with the final file
\* published; the sender never reports success for a transfer the receiver fails
C36_OutcomeAgreement ==
    (spc = "done" /\ ReceiverTerminated) => (rpc = "done" /\ final_exists)

ChunkDataReceived == codec_pc = "received" /\ codec_kind = "peer_chunk"

\* C37: recv_chunk never stores more than max_data_size bytes in the
\* caller's buffer: when the chunk header's chunk_size exceeds max_data_size
\* it fails with PROTOCOL without reading any data byte, and otherwise it
\* reads exactly chunk_size data bytes
C37_ChunkDataWithinBuffer ==
    ChunkDataReceived =>
        LET r == codec_result
        IN  /\ r.chunk_hdr.chunk_size = codec_value.chunk_size
            /\ r.data_read <= r.max_data_size
            /\ codec_value.chunk_size > r.max_data_size => (r.rc = -21 /\ r.data_read = 0)
            /\ codec_value.chunk_size <= r.max_data_size
                   => (r.rc /= -21 /\ r.data_read = codec_value.chunk_size)

\* a chunk header announcing one byte more than the buffer holds was refused
C37_Witness ==
    /\ ChunkDataReceived
    /\ codec_value.chunk_size = ChunkSize + 1 /\ codec_result.max_data_size = ChunkSize
    /\ codec_result.rc = FT_ERR_PROTOCOL /\ codec_result.data_read = 0

(***************************************************************************)
(* The chunk loop against a peer that is not this program: FILE_INFO has   *)
(* been accepted and the temp file is open; the peer sends CHUNK_DATA      *)
(* messages with a valid CRC and any chunk_id and chunk_offset.            *)
(***************************************************************************)
PeerChunkFrames ==
    {ChunkFrame(id, offset, data, 3, FALSE) :
        id \in {0, 1}, offset \in {0, ChunkSize, MaxFileSize, MaxFileSize + ChunkSize},
        data \in {<<>>, <<7>>, [i \in 1..ChunkSize |-> 7 + i]}}

PeerFileInfos ==
    {[filename |-> <<"a", ".", "C">>, file_size |-> n, chunk_size |-> ChunkSize,
      total_chunks |-> (n + ChunkSize - 1) \div ChunkSize] : n \in {1, ChunkSize + 1}}

InitPeerChunks ==
    /\ source = <<>> /\ filename = <<"a">> /\ avail = MaxFileSize
    /\ CodecOff
    /\ ConnectOff
    /\ ServerOff
    /\ spc = "absent" /\ chunk_id = 0 /\ retry_count = 0 /\ s_sequence_num = 2
    /\ chunk_buffer = <<>> /\ sent_chunks = 0 /\ s_error = FT_SUCCESS /\ attempts = 0
    /\ acks_ok_seen = 0 /\ last_sent = -1 /\ s_seen = {} /\ source_now = source
    /\ sent_of = [k \in 0..MaxFileSize |-> 0]
    /\ rpc = "chunks" /\ file_info \in PeerFileInfos
    /\ sanitized_name = file_info.filename
    /\ received_chunks = 0 /\ r_sequence_num = 3 /\ r_error = FT_SUCCESS /\ file_open = TRUE
    /\ temp_exists = TRUE /\ temp_file = <<>> /\ temp_opened = TRUE
    /\ final_exists = FALSE /\ final_file = <<>>
    /\ written_ids = {} /\ ok_acked = {}
    /\ corrupt_of = [k \in 0..MaxFileSize |-> 0] /\ other_fault = FALSE
    /\ s2c = <<>>
    /\ \E first \in PeerChunkFrames : c2s = <<first>> \/ \E second \in PeerChunkFrames : c2s = <<first, second>>

NextPeerChunks ==
    \/ R_RecvChunk
    \/ R_Finalize

SpecPeerChunks == InitPeerChunks /\ [][NextPeerChunks]_vars

\* the receiver writes the data of a CHUNK_DATA it has accepted to the temp file
ChunkWritten ==
    /\ rpc = "chunks" /\ c2s /= <<>>
    /\ Head(c2s).msg_type = MSG_CHUNK_DATA /\ Head(c2s).body.chunk_size > 0
    /\ written_ids' /= written_ids \/ temp_file' /= temp_file \/ received_chunks' /= received_chunks

\* C38: every write the receiver performs on the temp file lies inside
\* [0, FileInfo.file_size): for each CHUNK_DATA it accepts, chunk_offset +
\* chunk_size <= file_size, so the temp file never grows beyond the size
\* that was checked against the available disk space
C38_WritesInsideFile ==
    /\ [][ChunkWritten =>
             Head(c2s).body.chunk_offset + Head(c2s).body.chunk_size <= file_info.file_size]_vars
    /\ [](Len(temp_file) <= file_info.file_size)

====
